---- MODULE Spec2Model ----
(***************************************************************************)
(* llama-cpp-GUI: the settings of the form, the custom-argument list and   *)
(* the command builder generate_command of src/llama-server_gui_new.py.    *)
(*                                                                         *)
(* A Python str is modelled as a sequence of one-character strings, so     *)
(* that strip(), split(), str() and json.dumps() are computed character by *)
(* character.  An argument vector is a sequence of such strings.           *)
(***************************************************************************)
EXTENDS Integers, Sequences, FiniteSets, TLC

\* The number of unsaved changes: settings whose value differs from what the
\* configuration file holds.  The custom-argument panel is worked on while
\* the settings are as saved: a changed panel counts as MaxEdited changes.
MaxEdited == 1

\* The longest custom-argument list the user builds.
MaxArgs == 2

\* Accepted start requests, writes of all children together, and stop
\* requests written to one log.
MaxRuns == 2
MaxWrites == 1
MaxStops == 1

(***************************************************************************)
(* Text primitives of Python used by the program.                          *)
(***************************************************************************)

\* The characters str.strip() and str.split() treat as whitespace.
Whitespace == {" ", "\t", "\n"}

RECURSIVE lstrip(_)
lstrip(s) ==
    IF s # <<>> /\ Head(s) \in Whitespace THEN lstrip(Tail(s)) ELSE s

RECURSIVE rstrip(_)
rstrip(s) ==
    IF s # <<>> /\ s[Len(s)] \in Whitespace
    THEN rstrip(SubSeq(s, 1, Len(s) - 1))
    ELSE s

\* str.strip()
strip(s) == rstrip(lstrip(s))

\* Index of the first whitespace character of t, Len(t) + 1 when none.
word_end(t) ==
    IF \E i \in 1..Len(t) : t[i] \in Whitespace
    THEN CHOOSE i \in 1..Len(t) :
            /\ t[i] \in Whitespace
            /\ \A j \in 1..(i - 1) : t[j] \notin Whitespace
    ELSE Len(t) + 1

\* str.split() without arguments: the maximal runs of non-whitespace.
RECURSIVE split(_)
split(s) ==
    LET t == lstrip(s) IN
    IF t = <<>> THEN <<>>
    ELSE LET n == word_end(t) IN
         <<SubSeq(t, 1, n - 1)>> \o split(SubSeq(t, n, Len(t)))

DecimalDigits == <<"0", "1", "2", "3", "4", "5", "6", "7", "8", "9">>

RECURSIVE digits(_)
digits(n) ==
    IF n < 10 THEN <<DecimalDigits[n + 1]>>
    ELSE Append(digits(n \div 10), DecimalDigits[(n % 10) + 1])

\* str(int)
str(n) == IF n < 0 THEN <<"-">> \o digits(0 - n) ELSE digits(n)

\* json.dumps of one character inside a string literal.
json_escape(c) ==
    IF c = "\"" THEN <<"\\", "\"">>
    ELSE IF c = "\\" THEN <<"\\", "\\">>
    ELSE IF c = "\t" THEN <<"\\", "t">>
    ELSE IF c = "\n" THEN <<"\\", "n">>
    ELSE <<c>>

RECURSIVE json_escape_all(_)
json_escape_all(s) ==
    IF s = <<>> THEN <<>> ELSE json_escape(Head(s)) \o json_escape_all(Tail(s))

\* json.dumps(s) without the escaping of quotes and backslashes.
json_dumps_str_raw(s) == <<"\"">> \o s \o <<"\"">>

\* json.dumps(s) for a str s.
json_dumps_str(s) == <<"\"">> \o json_escape_all(s) \o <<"\"">>

\* json.dumps({"reasoning_effort": v})
json_dumps_kwargs(v) ==
    <<"{", "\"", "r", "e", "a", "s", "o", "n", "i", "n", "g", "_", "e", "f", "f", "o", "r", "t", "\"", ":", " ">> \o json_dumps_str(v) \o <<"}">>

(***************************************************************************)
(* The settings.                                                           *)
(***************************************************************************)

\* The (flag, setting) table of the optional value arguments, in the order
\* of the dict literal (a dict iterates in insertion order).
args ==
    << [flag |-> <<"-", "-", "h", "o", "s", "t">>, var |-> "host"],
       [flag |-> <<"-", "-", "p", "o", "r", "t">>, var |-> "port"],
       [flag |-> <<"-", "a">>, var |-> "alias"],
       [flag |-> <<"-", "-", "a", "p", "i", "-", "k", "e", "y">>, var |-> "api_key"],
       [flag |-> <<"-", "t">>, var |-> "threads"],
       [flag |-> <<"-", "b">>, var |-> "batch_size"],
       [flag |-> <<"-", "n", "p">>, var |-> "parallel"],
       [flag |-> <<"-", "-", "l", "o", "r", "a">>, var |-> "lora_path"],
       [flag |-> <<"-", "-", "m", "m", "p", "r", "o", "j">>, var |-> "mmproj_path"],
       [flag |-> <<"-", "-", "c", "h", "a", "t", "-", "t", "e", "m", "p", "l", "a", "t", "e">>, var |-> "chat_template"],
       [flag |-> <<"-", "m", "d">>, var |-> "draft_model_path"],
       [flag |-> <<"-", "n", "g", "l", "d">>, var |-> "draft_gpu_layers"],
       [flag |-> <<"-", "-", "d", "r", "a", "f", "t">>, var |-> "draft_tokens"],
       [flag |-> <<"-", "-", "n", "-", "c", "p", "u", "-", "m", "o", "e">>, var |-> "moe_cpu_layers"],
       [flag |-> <<"-", "-", "r", "e", "a", "s", "o", "n", "i", "n", "g", "-", "f", "o", "r", "m", "a", "t">>, var |-> "reasoning_format"],
       [flag |-> <<"-", "u", "b">>, var |-> "ubatch_size"],
       [flag |-> <<"-", "n">>, var |-> "n_predict"],
       [flag |-> <<"-", "-", "t", "e", "m", "p">>, var |-> "temp"],
       [flag |-> <<"-", "-", "t", "o", "p", "-", "k">>, var |-> "top_k"],
       [flag |-> <<"-", "-", "t", "o", "p", "-", "p">>, var |-> "top_p"],
       [flag |-> <<"-", "-", "r", "e", "p", "e", "a", "t", "-", "p", "e", "n", "a", "l", "t", "y">>, var |-> "repeat_penalty"] >>

bool_args ==
    << [flag |-> <<"-", "-", "n", "o", "-", "m", "m", "a", "p">>, var |-> "no_mmap"],
       [flag |-> <<"-", "-", "n", "o", "-", "w", "e", "b", "u", "i">>, var |-> "no_webui"],
       [flag |-> <<"-", "c", "b">>, var |-> "cont_batching"],
       [flag |-> <<"-", "-", "m", "l", "o", "c", "k">>, var |-> "mlock"],
       [flag |-> <<"-", "-", "e", "m", "b", "e", "d", "d", "i", "n", "g">>, var |-> "embedding"],
       [flag |-> <<"-", "-", "j", "i", "n", "j", "a">>, var |-> "jinja"],
       [flag |-> <<"-", "v">>, var |-> "verbose"],
       [flag |-> <<"-", "-", "i", "g", "n", "o", "r", "e", "-", "e", "o", "s">>, var |-> "ignore_eos"] >>


ArgVars == {args[i].var : i \in 1..Len(args)}
BoolArgVars == {bool_args[i].var : i \in 1..Len(bool_args)}

StringVarNames == ArgVars \cup {"model_path", "reasoning_effort", "flash_attn"}
BooleanVarNames == BoolArgVars \cup {"numa"}
IntVarNames == {"ctx_size", "gpu_layers"}

\* The values the widgets hold when the application starts without a
\* configuration file.
DefaultStringVar ==
    [n \in StringVarNames |->
        IF n = "host" THEN <<"1", "2", "7", ".", "0", ".", "0", ".", "1">>
        ELSE IF n = "port" THEN <<"8", "0", "8", "0">>
        ELSE IF n = "flash_attn" THEN <<"a", "u", "t", "o">>
        ELSE <<>>]

DefaultIntVar == [n \in IntVarNames |-> IF n = "ctx_size" THEN 4096 ELSE 99]

DefaultBooleanVar == [n \in BooleanVarNames |-> FALSE]

\* The resolution each slider is created with.
resolution == [n \in IntVarNames |-> IF n = "ctx_size" THEN 1024 ELSE 1]

VARIABLES
    StringVar,          \* tk.StringVar settings, by attribute name
    IntVar,             \* tk.IntVar settings (the two sliders)
    BooleanVar,         \* tk.BooleanVar settings (the check buttons)
    custom_arguments,   \* self.custom_arguments: list of {value, enabled}
    new_arg_entry,      \* text of the "new argument" entry
    cmd,                \* result of the generate_command call in progress
    config_file,        \* the settings as the configuration file last gave
                        \* or received them
    cmd_text,           \* text of the "Generated Command" window
    is_running,         \* self.is_running
    server_process,     \* self.server_process: 0 for None, else the run whose
                        \* Popen object it is
    start_button,       \* state of the three buttons
    stop_button,
    browser_button,
    output_text,        \* the log widget: the texts inserted since the last
                        \* delete
    after_queue,        \* callbacks handed to root.after(0, ...), oldest first
    run_server,         \* the reader threads, one per accepted start
    child,              \* the child processes, one per reader thread
    listener,           \* the callbacks the UI loop has run, oldest first
                        \* (of the runs before the last, the stopped
                        \* notifications only)
    document,           \* what the file named by self.config_file holds
    Messagebox,         \* the box the last save_config or load_config call
                        \* showed, "none" if it showed none
    root,               \* the main window: normal, withdrawn or destroyed,
                        \* and "exit" once the interpreter has exited
    TRAY_AVAILABLE      \* whether pystray and PIL could be imported

\* The state of the process supervision.
supervisor == <<is_running, server_process, start_button, stop_button,
                browser_button, output_text, after_queue, run_server, child,
                listener>>

\* The file, the message box, the window and the tray.
desktop == <<document, Messagebox, root, TRAY_AVAILABLE>>

vars == <<StringVar, IntVar, BooleanVar, custom_arguments, new_arg_entry, cmd,
          config_file, cmd_text, supervisor, desktop>>

\* The state function counted against MaxEdited.
EditedCount ==
    Cardinality({n \in StringVarNames :
                    StringVar[n] # config_file.StringVar[n]})
    + Cardinality({n \in IntVarNames : IntVar[n] # config_file.IntVar[n]})
    + Cardinality({n \in BooleanVarNames :
                    BooleanVar[n] # config_file.BooleanVar[n]})
    + (IF custom_arguments # config_file.custom_arguments_list
          \/ new_arg_entry # <<>>
       THEN MaxEdited ELSE 0)


(***************************************************************************)
(* Inputs: what the user types or selects.                                 *)
(***************************************************************************)

ModelPaths ==
    { <<>>, <<" ", "\t">>, <<"m", "o", "d", "e", "l", ".", "g", "g", "u", "f">>, <<" ", "m", " ", "m", " ">> }

OptionalValues ==
    { <<>>, <<" ">>, <<" ", "a", " ", "b", "\t">> }

ReasoningEfforts ==
    { <<>>, <<" ">>, <<"h", "i", "g", "h">>, <<" ", "l", "\"", "o", "\\", " ">> }

FlashAttnValues ==
    { <<>>, <<"a", "u", "t", "o">>, <<"o", "n">>, <<" ", "o", "f", "f", " ">>, <<" ", "a", "u", "t", "o", " ">> }

StringInputs(n) ==
    IF n = "model_path" THEN ModelPaths
    ELSE IF n = "reasoning_effort" THEN ReasoningEfforts
    ELSE IF n = "flash_attn" THEN FlashAttnValues
    ELSE OptionalValues

\* Raw positions of a slider.
SliderInputs(n) ==
    IF n = "ctx_size" THEN {0, 1536, 2560, 4096} ELSE {0, 33, 99}

\* Texts typed into the new-argument entry or into an in-place edit.
ArgTexts ==
    { <<>>, <<" ">>, <<"-", "-", "f", "o", "o", " ", "b", "a", "r">>, <<" ", "-", "x", " ">> }

\* The configuration documents found at start-up: the one save_config
\* writes on a fresh start, the same with a model chosen, one with every
\* optional setting empty, and one with every setting in use.
DefaultConfig ==
    [StringVar |-> DefaultStringVar, IntVar |-> DefaultIntVar,
     BooleanVar |-> DefaultBooleanVar, custom_arguments_list |-> <<>>]

\* The defaults saved once a model has been chosen.
ModelConfig ==
    [DefaultConfig EXCEPT !.StringVar["model_path"] = <<"m", "o", "d", "e", "l", ".", "g", "g", "u", "f">>]

BareConfig ==
    [StringVar |-> [n \in StringVarNames |->
                      IF n = "model_path" THEN <<"m", "o", "d", "e", "l", ".", "g", "g", "u", "f">> ELSE <<>>],
     IntVar |-> DefaultIntVar,
     BooleanVar |-> DefaultBooleanVar,
     custom_arguments_list |-> << [value |-> <<" ">>, enabled |-> TRUE] >>]

FullConfig ==
    [StringVar |-> [n \in StringVarNames |->
                      IF n = "model_path" THEN <<" ", "m", " ", "m", " ">>
                      ELSE IF n = "reasoning_effort" THEN <<"h", "i", "g", "h">>
                      ELSE IF n = "flash_attn" THEN <<"o", "n">>
                      ELSE IF n = "host" THEN <<"1", "2", "7", ".", "0", ".", "0", ".", "1">>
                      ELSE IF n = "port" THEN <<"8", "0", "8", "0">>
                      ELSE IF n = "alias" THEN <<"-", "t">>
                      ELSE IF n = "api_key" THEN <<"k", "\t", "k">>
                      ELSE <<" ", "a", " ", "b", "\t">>],
     IntVar |-> [n \in IntVarNames |-> IF n = "ctx_size" THEN 8192 ELSE 33],
     BooleanVar |-> [n \in BooleanVarNames |-> TRUE],
     custom_arguments_list |->
        << [value |-> <<"-", "-", "f", "o", "o", " ", "b", "a", "r">>, enabled |-> TRUE],
           [value |-> <<" ", "-", "x", " ">>, enabled |-> FALSE] >>]

ConfigFiles == {DefaultConfig, ModelConfig, BareConfig, FullConfig}

(***************************************************************************)
(* generate_command                                                        *)
(***************************************************************************)

\* The value of a call that returns None, and of no call in progress.
None == [kind |-> "None", argv |-> <<>>]
Unset == [kind |-> "unset", argv |-> <<>>]

\* base_args with the untrimmed model path.
base_args_untrimmed ==
    << <<"l", "l", "a", "m", "a", "-", "s", "e", "r", "v", "e", "r">>,
       <<"-", "m">>, StringVar["model_path"],
       <<"-", "c">>, str(IntVar["ctx_size"]),
       <<"-", "n", "g", "l">>, str(IntVar["gpu_layers"]) >>

\* cmd = ["llama-server", "-m", model_path] + ['-c', ...] + ['-ngl', ...]
base_args ==
    << <<"l", "l", "a", "m", "a", "-", "s", "e", "r", "v", "e", "r">>,
       <<"-", "m">>, strip(StringVar["model_path"]),
       <<"-", "c">>, str(IntVar["ctx_size"]),
       <<"-", "n", "g", "l">>, str(IntVar["gpu_layers"]) >>

\* value_arg testing the raw value and emitting it untrimmed.
value_arg_raw(flag, var) ==
    IF StringVar[var] # <<>>
    THEN <<flag, StringVar[var]>>
    ELSE <<>>

\* One entry of the optional value table: flag and trimmed value, or nothing.
value_arg(flag, var) ==
    IF strip(StringVar[var]) # <<>>
    THEN <<flag, strip(StringVar[var])>>
    ELSE <<>>

\* for flag, var in args.items(): ...   from entry i on
RECURSIVE value_args(_)
value_args(i) ==
    IF i > Len(args) THEN <<>>
    ELSE value_arg(args[i].flag, args[i].var) \o value_args(i + 1)

reasoning_effort_args ==
    IF strip(StringVar["reasoning_effort"]) # <<>>
    THEN << <<"-", "-", "c", "h", "a", "t", "-", "t", "e", "m", "p", "l", "a", "t", "e", "-", "k", "w", "a", "r", "g", "s">>,
            json_dumps_kwargs(StringVar["reasoning_effort"]) >>
    ELSE <<>>

\* flash_attn_args as a bare flag, the way a check button is emitted.
flash_attn_args_bare ==
    IF strip(StringVar["flash_attn"]) # <<>>
       /\ strip(StringVar["flash_attn"]) # <<"a", "u", "t", "o">>
    THEN << <<"-", "f", "a">> >>
    ELSE <<>>

flash_attn_args ==
    IF strip(StringVar["flash_attn"]) # <<>>
       /\ strip(StringVar["flash_attn"]) # <<"a", "u", "t", "o">>
    THEN << <<"-", "f", "a">>, strip(StringVar["flash_attn"]) >>
    ELSE <<>>

\* bool_arg emitting an explicit value after the flag.
bool_arg_valued(flag, var) ==
    IF BooleanVar[var] THEN <<flag, <<"o", "n">>>> ELSE <<>>

\* One entry of the boolean table: the bare flag, or nothing.
bool_arg(flag, var) == IF BooleanVar[var] THEN <<flag>> ELSE <<>>

\* for flag, var in bool_args.items(): ...   from entry i on
RECURSIVE bool_flags(_)
bool_flags(i) ==
    IF i > Len(bool_args) THEN <<>>
    ELSE bool_arg(bool_args[i].flag, bool_args[i].var) \o bool_flags(i + 1)

\* numa_args as a bare flag.
numa_args_bare ==
    IF BooleanVar["numa"] THEN << <<"-", "-", "n", "u", "m", "a">> >> ELSE <<>>

numa_args ==
    IF BooleanVar["numa"]
    THEN << <<"-", "-", "n", "u", "m", "a">>, <<"d", "i", "s", "t", "r", "i", "b", "u", "t", "e">> >>
    ELSE <<>>

\* custom_arg ignoring the enabled flag.
custom_arg_always(arg_item) ==
    IF strip(arg_item.value) # <<>>
    THEN split(strip(arg_item.value))
    ELSE <<>>

\* The tokens one custom argument contributes.
custom_arg(arg_item) ==
    IF arg_item.enabled /\ strip(arg_item.value) # <<>>
    THEN split(strip(arg_item.value))
    ELSE <<>>

\* for arg_item in self.custom_arguments: ...   from entry i on
RECURSIVE custom_args(_)
custom_args(i) ==
    IF i > Len(custom_arguments) THEN <<>>
    ELSE custom_arg(custom_arguments[i]) \o custom_args(i + 1)

\* generate_command testing the model path without strip().
generate_command_unstripped ==
    IF StringVar["model_path"] = <<>>
    THEN None
    ELSE [kind |-> "list",
          argv |-> base_args \o value_args(1) \o reasoning_effort_args
                   \o flash_attn_args \o bool_flags(1) \o numa_args
                   \o custom_args(1)]

\* A builder that looks at the run state: verbose while a server runs.
generate_command_running ==
    IF strip(StringVar["model_path"]) = <<>>
    THEN None
    ELSE [kind |-> "list",
          argv |-> base_args \o value_args(1) \o reasoning_effort_args
                   \o flash_attn_args \o bool_flags(1) \o numa_args
                   \o (IF is_running THEN << <<"-", "v">> >> ELSE <<>>)
                   \o custom_args(1)]

generate_command ==
    IF strip(StringVar["model_path"]) = <<>>
    THEN None
    ELSE [kind |-> "list",
          argv |-> base_args \o value_args(1) \o reasoning_effort_args
                   \o flash_attn_args \o bool_flags(1) \o numa_args
                   \o custom_args(1)]

(***************************************************************************)
(* The configuration file.  A Python value carries its type (str, int,     *)
(* bool, list, dict); a JSON value is a record of one field named after    *)
(* its type in the JSON grammar (string, number, boolean, array, object);  *)
(* json.dump and json.load translate between the two.  document is what    *)
(* the file holds: an object, an array, text that is no JSON, a file that  *)
(* cannot be read, or no file.                                             *)
(***************************************************************************)

\* The keys of the dictionary save_config builds.
config_keys ==
    StringVarNames \cup IntVarNames \cup BooleanVarNames
    \cup {"custom_arguments_list"}

\* One entry of self.custom_arguments as a Python dict.
arg_dict(arg_item) ==
    [type |-> "dict",
     value |-> [value |-> [type |-> "str", value |-> arg_item.value],
                enabled |-> [type |-> "bool", value |-> arg_item.enabled]]]

\* config = {'model_path': self.model_path.get(), ...} for settings c.
config_of(c) ==
    [key \in config_keys |->
        IF key \in StringVarNames
        THEN [type |-> "str", value |-> c.StringVar[key]]
        ELSE IF key \in IntVarNames
        THEN [type |-> "int", value |-> c.IntVar[key]]
        ELSE IF key \in BooleanVarNames
        THEN [type |-> "bool", value |-> c.BooleanVar[key]]
        ELSE [type |-> "list",
              value |-> [i \in 1..Len(c.custom_arguments_list) |->
                            arg_dict(c.custom_arguments_list[i])]]]

\* The dictionary of the settings as they are now.
config ==
    config_of([StringVar |-> StringVar, IntVar |-> IntVar,
               BooleanVar |-> BooleanVar,
               custom_arguments_list |-> custom_arguments])

\* The dictionary without the key of the flash attention setting.
config_sans_flash_attn ==
    [key \in config_keys \ {"flash_attn"} |-> config[key]]

\* json.dump of one value of the dictionary.
json_dump_value(v) ==
    CASE v.type = "str" -> [string |-> v.value]
      [] v.type = "int" -> [number |-> v.value]
      [] v.type = "bool" -> [boolean |-> v.value]
      [] v.type = "list" ->
            [array |-> [i \in 1..Len(v.value) |->
                [object |->
                    [value |-> [string |-> v.value[i].value.value.value],
                     enabled |-> [boolean |-> v.value[i].value.enabled.value]]]]]

\* json.dump(config, f, indent=4): the file holds the object.
json_dump(obj) ==
    [kind |-> "object",
     object |-> [key \in DOMAIN obj |-> json_dump_value(obj[key])]]

\* json.load of one value of the object.
json_load_value(j) ==
    CASE DOMAIN j = {"string"} -> [type |-> "str", value |-> j.string]
      [] DOMAIN j = {"number"} -> [type |-> "int", value |-> j.number]
      [] DOMAIN j = {"boolean"} -> [type |-> "bool", value |-> j.boolean]
      [] DOMAIN j = {"array"} ->
            [type |-> "list",
             value |-> [i \in 1..Len(j.array) |->
                [type |-> "dict",
                 value |-> [value |-> [type |-> "str",
                                       value |-> j.array[i].object.value.string],
                            enabled |-> [type |-> "bool",
                                         value |-> j.array[i].object.enabled.boolean]]]]]

\* json.load(f) of a file that holds an object.
json_load(doc) ==
    [key \in DOMAIN doc.object |-> json_load_value(doc.object[key])]

\* The second argument of each config.get of load_config.
load_default(key) ==
    IF key \in {"host", "port"}
    THEN [type |-> "str", value |-> DefaultStringVar[key]]
    ELSE IF key = "flash_attn" THEN [type |-> "bool", value |-> FALSE]
    ELSE IF key \in StringVarNames THEN [type |-> "str", value |-> <<>>]
    ELSE IF key \in IntVarNames
    THEN [type |-> "int", value |-> DefaultIntVar[key]]
    ELSE IF key \in BooleanVarNames THEN [type |-> "bool", value |-> FALSE]
    ELSE [type |-> "list", value |-> <<>>]

\* config.get(key, default)
get(loaded, key, default) ==
    IF key \in DOMAIN loaded THEN loaded[key] ELSE default

\* The statements of the try block of load_config after json.load, in order.
load_steps ==
    << "model_path", "alias", "lora_path", "mmproj_path", "chat_template",
       "reasoning_effort", "jinja", "ctx_size", "gpu_layers", "threads",
       "batch_size", "cont_batching", "parallel", "flash_attn", "mlock",
       "no_mmap", "numa", "moe_cpu_layers", "draft_model_path",
       "draft_gpu_layers", "draft_tokens", "host", "port", "api_key",
       "no_webui", "embedding", "verbose", "custom_arguments_list",
       "reasoning_format", "ubatch_size", "n_predict", "ignore_eos", "temp",
       "top_k", "top_p", "repeat_penalty", "update_all_sliders" >>

\* The place of a statement in the try block.
step_of(key) == CHOOSE i \in 1..Len(load_steps) : load_steps[i] = key

\* The strings Tcl reads as a boolean (lower case, unabbreviated).
getboolean ==
    [s \in { <<"0">>, <<"1">>, <<"n", "o">>, <<"y", "e", "s">>,
             <<"o", "f", "f">>, <<"o", "n">>,
             <<"f", "a", "l", "s", "e">>, <<"t", "r", "u", "e">> } |->
        s \in { <<"1">>, <<"y", "e", "s">>, <<"o", "n">>,
                <<"t", "r", "u", "e">> }]

\* StringVar.set(v); get(): a bool reads back as "1" or "0", an int in
\* decimal.
StringVar_set(v) ==
    CASE v.type = "str" -> v.value
      [] v.type = "bool" -> IF v.value THEN <<"1">> ELSE <<"0">>
      [] v.type = "int" -> str(v.value)

\* Whether BooleanVar.set(v) raises TclError.
BooleanVar_raises(v) ==
    CASE v.type = "bool" -> FALSE
      [] v.type = "int" -> FALSE
      [] v.type = "str" -> v.value \notin DOMAIN getboolean

\* BooleanVar.set(v); get()
BooleanVar_set(v) ==
    CASE v.type = "bool" -> v.value
      [] v.type = "int" -> v.value # 0
      [] v.type = "str" -> getboolean[v.value]

\* IntVar.set(v); get() for a number or a bool.
IntVar_set(v) ==
    CASE v.type = "int" -> v.value
      [] v.type = "bool" -> IF v.value THEN 1 ELSE 0

\* Whether the statement of load_config for key raises.
raises(loaded, key) ==
    IF key \in BooleanVarNames
    THEN BooleanVar_raises(get(loaded, key, load_default(key)))
    ELSE IF key = "custom_arguments_list"
    THEN /\ get(loaded, key, load_default(key)).value = <<>>
         /\ "custom_args" \in DOMAIN loaded
         /\ loaded["custom_args"].type # "str"
    ELSE FALSE

\* The first statement that raises, or one past the last.
first_raise(loaded) ==
    LET failing == {i \in 1..Len(load_steps) :
                        raises(loaded, load_steps[i])}
    IN  IF failing = {} THEN Len(load_steps) + 1
        ELSE CHOOSE i \in failing : \A j \in failing : i <= j

\* The legacy text taken without strip().
loaded_arguments_unstripped(loaded) ==
    LET list == get(loaded, "custom_arguments_list",
                    load_default("custom_arguments_list")).value
        custom_arguments_list ==
            [i \in 1..Len(list) |->
                [value |-> list[i].value.value.value,
                 enabled |-> list[i].value.enabled.value]]
    IN  IF /\ custom_arguments_list = <<>>
           /\ "custom_args" \in DOMAIN loaded
           /\ loaded["custom_args"].type = "str"
           /\ strip(loaded["custom_args"].value) # <<>>
        THEN << [value |-> loaded["custom_args"].value, enabled |-> TRUE] >>
        ELSE custom_arguments_list

\* self.custom_arguments after the statements that load the list: the list of
\* the document, or the legacy text as one enabled entry.
loaded_arguments(loaded) ==
    LET list == get(loaded, "custom_arguments_list",
                    load_default("custom_arguments_list")).value
        custom_arguments_list ==
            [i \in 1..Len(list) |->
                [value |-> list[i].value.value.value,
                 enabled |-> list[i].value.enabled.value]]
    IN  IF /\ custom_arguments_list = <<>>
           /\ "custom_args" \in DOMAIN loaded
           /\ loaded["custom_args"].type = "str"
           /\ strip(loaded["custom_args"].value) # <<>>
        THEN << [value |-> strip(loaded["custom_args"].value),
                 enabled |-> TRUE] >>
        ELSE custom_arguments_list

\* The object save_config writes for the settings with every setting in use.
FullObject == json_dump(config_of(FullConfig)).object

\* An object without some keys, and with one key more or replaced.
without(obj, keys) == [key \in DOMAIN obj \ keys |-> obj[key]]

with(obj, key, j) ==
    [k \in DOMAIN obj \cup {key} |-> IF k = key THEN j ELSE obj[k]]

string(s) == [string |-> s]

number(n) == [number |-> n]

array(list) ==
    json_dump_value([type |-> "list",
                     value |-> [i \in 1..Len(list) |-> arg_dict(list[i])]])

\* A list in which the first and the last entry are equal.
RepeatedArguments ==
    << [value |-> <<"-", "a">>, enabled |-> TRUE],
       [value |-> <<"-", "b">>, enabled |-> TRUE],
       [value |-> <<"-", "a">>, enabled |-> TRUE] >>

\* Documents with keys missing: the keys of one kind of setting, the list,
\* all of them, all but one, some of each kind, and one with a key the
\* program does not know.
PartialObjects ==
    { without(FullObject, keys) :
          keys \in {StringVarNames, IntVarNames, BooleanVarNames,
                    {"custom_arguments_list"}} }
    \cup { without(FullObject, config_keys),
           without(FullObject, config_keys \ {"model_path"}),
           without(FullObject, {"flash_attn", "host", "jinja", "ctx_size"}),
           with(FullObject, "theme", string(<<"d", "a", "r", "k">>)) }

\* Documents of the version that kept the custom arguments as one text.
LegacyObjects ==
    { with(without(FullObject, {"custom_arguments_list"}), "custom_args", string(s)) :
          s \in { <<>>, <<" ", "\t">>, <<" ", "-", "x", " ", "1", " ">> } }
    \cup { with(with(FullObject, "custom_arguments_list", array(list)),
                "custom_args", string(<<"-", "y">>)) :
              list \in { <<>>, FullConfig.custom_arguments_list } }
    \cup { with(FullObject, "custom_arguments_list", array(<<>>)) }

\* Documents edited by hand: values of another type that tkinter converts, a
\* context size off the grid of the slider (within its range), a list with
\* two equal entries.
EditedObjects ==
    { with(FullObject, "jinja", string(<<"n", "o">>)),
      with(FullObject, "port", number(8080)),
      with(FullObject, "numa", number(0)),
      with(FullObject, "ctx_size", number(5000)),
      with(FullObject, "ctx_size", number(1536)),
      with(FullObject, "custom_arguments_list", array(RepeatedArguments)) }

\* Documents on which a statement of load_config raises: a text where a
\* boolean is expected, a legacy value that is no text.
IllTypedObjects ==
    { with(FullObject, "jinja", string(<<"a", "b", "c">>)),
      with(FullObject, "verbose", string(<<"a", "b", "c">>)),
      with(without(FullObject, {"custom_arguments_list"}), "custom_args", number(5)),
      with(with(without(FullObject, {"custom_arguments_list"}), "custom_args", number(5)),
           "ctx_size", number(5000)) }

\* What the file may hold when load_config runs.
Documents ==
    { json_dump(config_of(c)) : c \in ConfigFiles }
    \cup { [kind |-> "object", object |-> obj] :
              obj \in PartialObjects \cup LegacyObjects \cup EditedObjects
                      \cup IllTypedObjects }
    \cup { [kind |-> k, object |-> <<>>] :
              k \in {"absent", "OSError", "JSONDecodeError", "array"} }

(***************************************************************************)
(* The handlers.  cmd holds the vector of the show_command call whose      *)
(* message box or preview window is open; the user edits the form between  *)
(* such calls.                                                             *)
(***************************************************************************)

\* __init__: setup_ui creates the widgets, load_config fills them from the
\* configuration file (every key present, the slider values already snapped).
LlamaServerGUI ==
    /\ config_file \in ConfigFiles
    /\ StringVar = config_file.StringVar
    /\ IntVar = config_file.IntVar
    /\ BooleanVar = config_file.BooleanVar
    /\ custom_arguments = config_file.custom_arguments_list
    /\ new_arg_entry = <<>>
    /\ cmd = Unset
    /\ cmd_text = <<>>
    /\ is_running = FALSE
    /\ server_process = 0
    /\ start_button = "normal"
    /\ stop_button = "disabled"
    /\ browser_button = "disabled"
    /\ output_text = <<>>
    /\ after_queue = <<>>
    /\ run_server = <<>>
    /\ child = <<>>
    /\ listener = <<>>
    /\ document = json_dump(config_of(config_file))
    /\ Messagebox = "none"
    /\ root = "normal"

\* The program started where pystray and PIL are installed.
Init ==
    /\ LlamaServerGUI
    /\ TRAY_AVAILABLE = TRUE

\* The user types into an entry, combobox or spinbox bound to a StringVar.
create_entry(n, v) ==
    /\ cmd = Unset
    /\ StringVar' = [StringVar EXCEPT ![n] = v]
    /\ UNCHANGED <<IntVar, BooleanVar, custom_arguments, new_arg_entry, cmd, config_file>>
    /\ UNCHANGED <<cmd_text, supervisor, desktop>>
    /\ EditedCount' <= MaxEdited

\* The user clicks a check button bound to a BooleanVar.
create_checkbutton(n) ==
    /\ cmd = Unset
    /\ BooleanVar' = [BooleanVar EXCEPT ![n] = ~BooleanVar[n]]
    /\ UNCHANGED <<StringVar, IntVar, custom_arguments, new_arg_entry, cmd, config_file>>
    /\ UNCHANGED <<cmd_text, supervisor, desktop>>
    /\ EditedCount' <= MaxEdited

\* Python 3 round(raw_value / resolution): to nearest, ties to even.
round_div(raw_value, res) ==
    LET q == raw_value \div res
        r == raw_value % res
    IN  IF 2 * r < res THEN q
        ELSE IF 2 * r > res THEN q + 1
        ELSE IF q % 2 = 0 THEN q ELSE q + 1

\* The user moves a slider to raw_value; its command snaps the IntVar.
update_slider_label(n, raw_value) ==
    /\ cmd = Unset
    /\ IntVar' = [IntVar EXCEPT
                    ![n] = round_div(raw_value, resolution[n]) * resolution[n]]
    /\ UNCHANGED <<StringVar, BooleanVar, custom_arguments, new_arg_entry, cmd, config_file>>
    /\ UNCHANGED <<cmd_text, supervisor, desktop>>
    /\ EditedCount' <= MaxEdited

\* The user types into the new-argument entry.
type_new_arg(text) ==
    /\ cmd = Unset
    /\ new_arg_entry' = text
    /\ UNCHANGED <<StringVar, IntVar, BooleanVar, custom_arguments, cmd, config_file>>
    /\ UNCHANGED <<cmd_text, supervisor, desktop>>
    /\ EditedCount' <= MaxEdited

\* A duplicate test that looks at the enabled rows only.
value_exists_enabled(arg_text) ==
    \E i \in 1..Len(custom_arguments) :
        /\ custom_arguments[i].enabled
        /\ custom_arguments[i].value = arg_text

\* any(arg['value'] == arg_text for arg in self.custom_arguments)
value_exists(arg_text) ==
    \E i \in 1..Len(custom_arguments) : custom_arguments[i].value = arg_text

\* An "Add" button that appends without the duplicate test.
add_custom_argument_unchecked ==
    LET arg_text == strip(new_arg_entry) IN
    /\ cmd = Unset
    /\ IF arg_text = <<>>
       THEN UNCHANGED <<custom_arguments, new_arg_entry>>
       ELSE /\ Len(custom_arguments) < MaxArgs
            /\ custom_arguments' =
                Append(custom_arguments, [value |-> arg_text, enabled |-> TRUE])
            /\ new_arg_entry' = <<>>
    /\ UNCHANGED <<StringVar, IntVar, BooleanVar, cmd, config_file>>
    /\ UNCHANGED <<cmd_text, supervisor, desktop>>
    /\ EditedCount' <= MaxEdited

\* The "Add" button.
add_custom_argument ==
    LET arg_text == strip(new_arg_entry) IN
    /\ cmd = Unset
    /\ IF arg_text = <<>> \/ value_exists(arg_text)
       THEN UNCHANGED <<custom_arguments, new_arg_entry>>
       ELSE /\ Len(custom_arguments) < MaxArgs
            /\ custom_arguments' =
                Append(custom_arguments, [value |-> arg_text, enabled |-> TRUE])
            /\ new_arg_entry' = <<>>
    /\ UNCHANGED <<StringVar, IntVar, BooleanVar, cmd, config_file>>
    /\ UNCHANGED <<cmd_text, supervisor, desktop>>
    /\ EditedCount' <= MaxEdited

\* The toggle of row i: item["enabled"] = var.get()
on_toggle(i) ==
    /\ cmd = Unset
    /\ custom_arguments' =
         [custom_arguments EXCEPT ![i].enabled = ~custom_arguments[i].enabled]
    /\ UNCHANGED <<StringVar, IntVar, BooleanVar, new_arg_entry, cmd, config_file>>
    /\ UNCHANGED <<cmd_text, supervisor, desktop>>
    /\ EditedCount' <= MaxEdited

\* list.remove(x): drops the first entry equal to x.
list_remove(list, x) ==
    LET k == CHOOSE j \in 1..Len(list) :
                /\ list[j] = x
                /\ \A h \in 1..(j - 1) : list[h] # x
    IN  SubSeq(list, 1, k - 1) \o SubSeq(list, k + 1, Len(list))

\* The "Delete" button of row i.
delete_custom_argument(i) ==
    /\ cmd = Unset
    /\ custom_arguments' = list_remove(custom_arguments, custom_arguments[i])
    /\ UNCHANGED <<StringVar, IntVar, BooleanVar, new_arg_entry, cmd, config_file>>
    /\ UNCHANGED <<cmd_text, supervisor, desktop>>
    /\ EditedCount' <= MaxEdited

\* Return or focus-out in the in-place edit of row i.
save_edit(i, text) ==
    LET new_value == strip(text) IN
    /\ cmd = Unset
    /\ custom_arguments' =
         IF new_value # <<>>
         THEN [custom_arguments EXCEPT ![i].value = new_value]
         ELSE custom_arguments
    /\ UNCHANGED <<StringVar, IntVar, BooleanVar, new_arg_entry, cmd, config_file>>
    /\ UNCHANGED <<cmd_text, supervisor, desktop>>
    /\ EditedCount' <= MaxEdited

(***************************************************************************)
(* The command line as text                                                *)
(***************************************************************************)

\* " " in arg
has_space(arg) == \E i \in 1..Len(arg) : arg[i] = " "

\* f'"{arg}"' if " " in arg else arg
quote_arg(arg) ==
    IF has_space(arg) THEN <<"\"">> \o arg \o <<"\"">> ELSE arg

\* sep.join(list)
RECURSIVE join(_, _)
join(sep, list) ==
    IF list = <<>> THEN <<>>
    ELSE IF Len(list) = 1 THEN list[1]
    ELSE list[1] \o sep \o join(sep, Tail(list))

\* " ".join(f'"{arg}"' if " " in arg else arg for arg in cmd)
command_str(argv) ==
    join(<<" ">>, [i \in 1..Len(argv) |-> quote_arg(argv[i])])

\* The "Generate Command" button: the vector is built and shown (or, for
\* None, the error box of generate_command is shown).
show_command ==
    /\ cmd = Unset
    /\ cmd' = generate_command
    /\ cmd_text' = IF generate_command.kind = "list"
                   THEN command_str(generate_command.argv)
                   ELSE <<>>
    /\ UNCHANGED <<StringVar, IntVar, BooleanVar, custom_arguments, new_arg_entry,
                   config_file, supervisor, desktop>>

\* The error box or the preview window is closed.
close_command_window ==
    /\ cmd # Unset
    /\ cmd' = Unset
    /\ cmd_text' = <<>>
    /\ UNCHANGED <<StringVar, IntVar, BooleanVar, custom_arguments, new_arg_entry,
                   config_file, supervisor, desktop>>

(***************************************************************************)
(* The server process: start_server, its reader thread run_server, the     *)
(* child, stop_server and the callbacks of the UI loop                     *)
(***************************************************************************)

\* The settings and windows the supervision leaves alone.
form == <<StringVar, IntVar, BooleanVar, custom_arguments, new_arg_entry,
          config_file, desktop>>

\* "="*80
rule == "================================================================================"

\* The texts written to the log (the pictographs of the source left out).
starting_text(str_of_cmd) ==
    <<"Starting server with command:\n">> \o str_of_cmd \o <<"\n\n", rule, "\n">>
stop_requested_text == <<"\n", rule, "\nServer stop requested...\n">>
stop_error_text == <<"\nError stopping server: ", "PermissionError", "\n">>
terminated_text == <<"Server process has terminated.\n">>
not_found_text ==
    <<"\nError: 'llama-server' executable not found. Ensure it's in the PATH or same directory.\n">>
spawn_error_text == <<"\nError starting server: ", "PermissionError", "\n">>

\* chr(n), for the code points the bytes of Chunks decode to; a character
\* outside ASCII is written U+00xx.
chr(n) ==
    CASE n = 10 -> "\n"
      [] n = 65 -> "A"
      [] n = 66 -> "B"
      [] n = 169 -> "U+00A9"
      [] n = 195 -> "U+00C3"
      [] n = 233 -> "U+00E9"
      [] n = 255 -> "U+00FF"

\* line_bytes.decode('utf-8') for one- and two-byte forms (Chunks holds no
\* lead byte of a longer form); ok is FALSE for UnicodeDecodeError.
RECURSIVE decode_utf8(_)
decode_utf8(line_bytes) ==
    IF line_bytes = <<>> THEN [ok |-> TRUE, text |-> <<>>]
    ELSE IF line_bytes[1] < 128
    THEN LET rest == decode_utf8(Tail(line_bytes))
         IN  [ok |-> rest.ok, text |-> <<chr(line_bytes[1])>> \o rest.text]
    ELSE IF /\ line_bytes[1] \in 194..223
            /\ Len(line_bytes) >= 2
            /\ line_bytes[2] \in 128..191
    THEN LET rest == decode_utf8(SubSeq(line_bytes, 3, Len(line_bytes)))
         IN  [ok |-> rest.ok,
              text |-> <<chr((line_bytes[1] - 192) * 64 + (line_bytes[2] - 128))>>
                       \o rest.text]
    ELSE [ok |-> FALSE, text |-> <<>>]

\* line_bytes.decode('latin-1', errors='replace'): every byte is a character.
decode_latin1(line_bytes) == [i \in 1..Len(line_bytes) |-> chr(line_bytes[i])]

\* try: decode('utf-8') except UnicodeDecodeError: decode('latin-1', ...)
decode(line_bytes) ==
    IF decode_utf8(line_bytes).ok
    THEN decode_utf8(line_bytes).text
    ELSE decode_latin1(line_bytes)

\* What a child may write in one write: a line that is not UTF-8 followed by
\* text without a line end; a line of two-byte UTF-8.
Chunks == { <<255, 10, 66>>, <<195, 169, 10>> }

\* How Popen can end: the child runs, or one of the two except clauses.
PopenOutcomes == {"ok", "FileNotFoundError", "Exception"}

\* Exit statuses of a child.
ReturnCodes == {0, 1}

\* The writes of all children so far, and the stop requests in the log.
RECURSIVE writes_upto(_)
writes_upto(r) == IF r = 0 THEN 0 ELSE child[r].writes + writes_upto(r - 1)
stops_logged ==
    Cardinality({i \in 1..Len(output_text) :
                    output_text[i] \in {stop_requested_text, stop_error_text}})

\* A callback of root.after(0, fn, text), tagged with the thread that made it.
callback(fn, text, r) == [fn |-> fn, text |-> text, run |-> r]

\* stdout.readline on the bytes in the pipe: through the first line end, or
\* all of it.
line_end(bytes) ==
    IF \E i \in 1..Len(bytes) : bytes[i] = 10
    THEN CHOOSE i \in 1..Len(bytes) :
            /\ bytes[i] = 10
            /\ \A j \in 1..(i - 1) : bytes[j] # 10
    ELSE Len(bytes)

\* What the model keeps of a child that has exited once the next run starts
\* (its output, its status and the requests it got are read by no step), and
\* of the callbacks run before: the stopped notifications.
reaped(c) ==
    IF c.state = "exited"
    THEN [c EXCEPT !.argv = <<>>, !.stdout = <<>>, !.written = <<>>,
                   !.terminate = FALSE, !.returncode = 0]
    ELSE c
is_server_stopped(cb) == cb.fn = "server_stopped"

\* The "Start Server" button without the is_running check.
start_server_unguarded ==
    /\ cmd.kind # "None"
    /\ IF generate_command.kind = "None"
       THEN /\ cmd' = None
            /\ UNCHANGED <<form, cmd_text, supervisor>>
       ELSE /\ Len(run_server) < MaxRuns
            /\ output_text' = << starting_text(command_str(generate_command.argv)) >>
            /\ run_server' = Append(run_server,
                                    [pc |-> "Popen", cmd |-> generate_command.argv])
            /\ child' = Append([r \in 1..Len(child) |-> reaped(child[r])],
                               [state |-> "unborn", argv |-> <<>>, stdout |-> <<>>,
                                open |-> FALSE, written |-> <<>>, writes |-> 0,
                                terminate |-> FALSE, returncode |-> 0])
            /\ is_running' = TRUE
            /\ start_button' = "disabled"
            /\ stop_button' = "normal"
            /\ browser_button' = "normal"
            /\ listener' = SelectSeq(listener, is_server_stopped)
            /\ UNCHANGED <<form, cmd, cmd_text, server_process, after_queue>>

\* The "Start Server" button, the log deleted before the command is validated.
start_server_clears_first ==
    /\ cmd.kind # "None"
    /\ IF is_running
       THEN UNCHANGED vars
       ELSE IF generate_command.kind = "None"
       THEN /\ cmd' = None
            /\ output_text' = <<>>
            /\ UNCHANGED <<form, cmd_text, is_running, server_process,
                           start_button, stop_button, browser_button,
                           after_queue, run_server, child, listener>>
       ELSE /\ Len(run_server) < MaxRuns
            /\ output_text' = << starting_text(command_str(generate_command.argv)) >>
            /\ run_server' = Append(run_server,
                                    [pc |-> "Popen", cmd |-> generate_command.argv])
            /\ child' = Append([r \in 1..Len(child) |-> reaped(child[r])],
                               [state |-> "unborn", argv |-> <<>>, stdout |-> <<>>,
                                open |-> FALSE, written |-> <<>>, writes |-> 0,
                                terminate |-> FALSE, returncode |-> 0])
            /\ is_running' = TRUE
            /\ start_button' = "disabled"
            /\ stop_button' = "normal"
            /\ browser_button' = "normal"
            /\ listener' = SelectSeq(listener, is_server_stopped)
            /\ UNCHANGED <<form, cmd, cmd_text, server_process, after_queue>>

\* The "Start Server" button.
start_server ==
    /\ cmd.kind # "None"
    /\ IF is_running
       THEN UNCHANGED vars
       ELSE IF generate_command.kind = "None"
       THEN /\ cmd' = None
            /\ UNCHANGED <<form, cmd_text, supervisor>>
       ELSE /\ Len(run_server) < MaxRuns
            /\ output_text' = << starting_text(command_str(generate_command.argv)) >>
            /\ run_server' = Append(run_server,
                                    [pc |-> "Popen", cmd |-> generate_command.argv])
            /\ child' = Append([r \in 1..Len(child) |-> reaped(child[r])],
                               [state |-> "unborn", argv |-> <<>>, stdout |-> <<>>,
                                open |-> FALSE, written |-> <<>>, writes |-> 0,
                                terminate |-> FALSE, returncode |-> 0])
            /\ is_running' = TRUE
            /\ start_button' = "disabled"
            /\ stop_button' = "normal"
            /\ browser_button' = "normal"
            /\ listener' = SelectSeq(listener, is_server_stopped)
            /\ UNCHANGED <<form, cmd, cmd_text, server_process, after_queue>>

\* run_server: subprocess.Popen(cmd, stdout=PIPE, stderr=STDOUT, ...); a
\* child that was not started keeps the exception as its state.
Popen(r, outcome) ==
    /\ run_server[r].pc = "Popen"
    /\ IF outcome = "ok"
       THEN /\ server_process' = r
            /\ child' = [child EXCEPT ![r].state = "alive",
                                      ![r].argv = run_server[r].cmd,
                                      ![r].open = TRUE]
            /\ run_server' = [run_server EXCEPT ![r].pc = "readline"]
       ELSE /\ run_server' = [run_server EXCEPT ![r].pc = outcome]
            /\ child' = [child EXCEPT ![r].state = outcome]
            /\ UNCHANGED server_process
    /\ UNCHANGED <<form, cmd, cmd_text, is_running, start_button, stop_button,
                   browser_button, output_text, after_queue, listener>>

\* One turn of the loop with the line decoded as UTF-8 only; a line that is
\* not UTF-8 raises into the "except Exception" clause.
readline_strict(r) ==
    /\ run_server[r].pc = "readline"
    /\ LET bytes == child[r].stdout
           k == line_end(bytes)
       IN  IF bytes # <<>> /\ (bytes[k] = 10 \/ ~child[r].open)
           THEN /\ child' = [child EXCEPT ![r].stdout = SubSeq(bytes, k + 1, Len(bytes))]
                /\ IF decode_utf8(SubSeq(bytes, 1, k)).ok
                   THEN /\ after_queue' =
                             Append(after_queue,
                                    callback("update_output",
                                             decode_utf8(SubSeq(bytes, 1, k)).text, r))
                        /\ UNCHANGED run_server
                   ELSE /\ run_server' = [run_server EXCEPT ![r].pc = "Exception"]
                        /\ UNCHANGED after_queue
           ELSE /\ bytes = <<>>
                /\ ~child[r].open
                /\ run_server' = [run_server EXCEPT ![r].pc = "wait"]
                /\ UNCHANGED <<after_queue, child>>
    /\ UNCHANGED <<form, cmd, cmd_text, is_running, server_process, start_button,
                   stop_button, browser_button, output_text, listener>>

\* run_server: one turn of "for line_bytes in iter(stdout.readline, b'')".
readline(r) ==
    /\ run_server[r].pc = "readline"
    /\ LET bytes == child[r].stdout
           k == line_end(bytes)
       IN  IF bytes # <<>> /\ (bytes[k] = 10 \/ ~child[r].open)
           THEN /\ after_queue' =
                     Append(after_queue,
                            callback("update_output", decode(SubSeq(bytes, 1, k)), r))
                /\ child' = [child EXCEPT ![r].stdout = SubSeq(bytes, k + 1, Len(bytes))]
                /\ UNCHANGED run_server
           ELSE /\ bytes = <<>>
                /\ ~child[r].open
                /\ run_server' = [run_server EXCEPT ![r].pc = "wait"]
                /\ UNCHANGED <<after_queue, child>>
    /\ UNCHANGED <<form, cmd, cmd_text, is_running, server_process, start_button,
                   stop_button, browser_button, output_text, listener>>

\* run_server: self.server_process.wait()
wait(r) ==
    /\ run_server[r].pc = "wait"
    /\ child[r].state = "exited"
    /\ run_server' = [run_server EXCEPT ![r].pc = "after server_stopped"]
    /\ UNCHANGED <<form, cmd, cmd_text, is_running, server_process, start_button,
                   stop_button, browser_button, output_text, after_queue, child,
                   listener>>

\* An except clause that reports the error and ends the thread.
except_silent(r) ==
    /\ run_server[r].pc \in {"FileNotFoundError", "Exception"}
    /\ after_queue' =
          Append(after_queue,
                 callback("update_output",
                          IF run_server[r].pc = "FileNotFoundError"
                          THEN not_found_text ELSE spawn_error_text, r))
    /\ run_server' = [run_server EXCEPT ![r].pc = "done"]
    /\ UNCHANGED <<form, cmd, cmd_text, is_running, server_process, start_button,
                   stop_button, browser_button, output_text, child, listener>>

\* run_server: the first statement of an except clause.
except(r) ==
    /\ run_server[r].pc \in {"FileNotFoundError", "Exception"}
    /\ after_queue' =
          Append(after_queue,
                 callback("update_output",
                          IF run_server[r].pc = "FileNotFoundError"
                          THEN not_found_text ELSE spawn_error_text, r))
    /\ run_server' = [run_server EXCEPT ![r].pc = "after server_stopped"]
    /\ UNCHANGED <<form, cmd, cmd_text, is_running, server_process, start_button,
                   stop_button, browser_button, output_text, child, listener>>

\* run_server with the stopped notification posted twice.
after_server_stopped_twice(r) ==
    /\ run_server[r].pc = "after server_stopped"
    /\ after_queue' = after_queue \o << callback("server_stopped", <<>>, r),
                                        callback("server_stopped", <<>>, r) >>
    /\ run_server' = [run_server EXCEPT ![r].pc = "done"]
    /\ UNCHANGED <<form, cmd, cmd_text, is_running, server_process, start_button,
                   stop_button, browser_button, output_text, child, listener>>

\* run_server: self.root.after(0, self.server_stopped), the thread's last
\* statement on every path.
after_server_stopped(r) ==
    /\ run_server[r].pc = "after server_stopped"
    /\ after_queue' = Append(after_queue, callback("server_stopped", <<>>, r))
    /\ run_server' = [run_server EXCEPT ![r].pc = "done"]
    /\ UNCHANGED <<form, cmd, cmd_text, is_running, server_process, start_button,
                   stop_button, browser_button, output_text, child, listener>>

\* The child writes to its stdout or stderr.
child_write(r, chunk) ==
    /\ child[r].state = "alive"
    /\ child[r].open
    /\ writes_upto(Len(child)) < MaxWrites
    /\ child' = [child EXCEPT ![r].stdout = @ \o chunk,
                              ![r].written = @ \o chunk,
                              ![r].writes = @ + 1]
    /\ UNCHANGED <<form, cmd, cmd_text, is_running, server_process, start_button,
                   stop_button, browser_button, output_text, after_queue,
                   run_server, listener>>

\* The child closes its output and goes on running.
child_close(r) ==
    /\ child[r].state = "alive"
    /\ child[r].open
    /\ child' = [child EXCEPT ![r].open = FALSE]
    /\ UNCHANGED <<form, cmd, cmd_text, is_running, server_process, start_button,
                   stop_button, browser_button, output_text, after_queue,
                   run_server, listener>>

\* The child exits, of itself or on the terminate request.
child_exit(r, returncode) ==
    /\ child[r].state = "alive"
    /\ child' = [child EXCEPT ![r].state = "exited",
                              ![r].open = FALSE,
                              ![r].returncode = returncode]
    /\ UNCHANGED <<form, cmd, cmd_text, is_running, server_process, start_button,
                   stop_button, browser_button, output_text, after_queue,
                   run_server, listener>>

\* A "Stop Server" button that marks the server stopped at once.
stop_server_resets(raised) ==
    /\ cmd.kind # "None"
    /\ IF server_process # 0 /\ is_running
       THEN /\ stops_logged < MaxStops
            /\ is_running' = FALSE
            /\ start_button' = "normal"
            /\ IF raised
               THEN /\ output_text' = Append(output_text, stop_error_text)
                    /\ UNCHANGED child
               ELSE /\ child' = [child EXCEPT ![server_process].terminate =
                                    @ \/ child[server_process].state = "alive"]
                    /\ output_text' = Append(output_text, stop_requested_text)
       ELSE UNCHANGED <<child, output_text, is_running, start_button>>
    /\ UNCHANGED <<form, cmd, cmd_text, server_process, stop_button,
                   browser_button, after_queue, run_server, listener>>

\* A "Stop Server" button that kills the child and waits for its exit.
stop_server_kill(raised) ==
    /\ cmd.kind # "None"
    /\ IF server_process # 0 /\ is_running
       THEN /\ stops_logged < MaxStops
            /\ IF raised
               THEN /\ output_text' = Append(output_text, stop_error_text)
                    /\ UNCHANGED child
               ELSE /\ child' = [child EXCEPT
                                    ![server_process].terminate =
                                        @ \/ child[server_process].state = "alive",
                                    ![server_process].state =
                                        IF @ = "alive" THEN "exited" ELSE @,
                                    ![server_process].open = FALSE]
                    /\ output_text' = Append(output_text, stop_requested_text)
       ELSE UNCHANGED <<child, output_text>>
    /\ UNCHANGED <<form, cmd, cmd_text, is_running, server_process, start_button,
                   stop_button, browser_button, after_queue, run_server, listener>>

\* The "Stop Server" button; raised tells whether terminate() raises.
stop_server(raised) ==
    /\ cmd.kind # "None"
    /\ IF server_process # 0 /\ is_running
       THEN /\ stops_logged < MaxStops
            /\ IF raised
               THEN /\ output_text' = Append(output_text, stop_error_text)
                    /\ UNCHANGED child
               ELSE /\ child' = [child EXCEPT ![server_process].terminate =
                                    @ \/ child[server_process].state = "alive"]
                    /\ output_text' = Append(output_text, stop_requested_text)
       ELSE UNCHANGED <<child, output_text>>
    /\ UNCHANGED <<form, cmd, cmd_text, is_running, server_process, start_button,
                   stop_button, browser_button, after_queue, run_server, listener>>

\* update_output(text), as a callback of the UI loop.
update_output(text) ==
    /\ output_text' = Append(output_text, text)
    /\ UNCHANGED <<is_running, start_button, stop_button, browser_button>>

\* A server_stopped that resets the buttons and the log but not is_running.
server_stopped_buttons_only ==
    /\ UNCHANGED is_running
    /\ start_button' = "normal"
    /\ stop_button' = "disabled"
    /\ browser_button' = "disabled"
    /\ output_text' = Append(output_text, terminated_text)

\* server_stopped(), as a callback of the UI loop.
server_stopped ==
    /\ is_running' = FALSE
    /\ start_button' = "normal"
    /\ stop_button' = "disabled"
    /\ browser_button' = "disabled"
    /\ output_text' = Append(output_text, terminated_text)

\* A UI loop that runs the newest callback of root.after first.
mainloop_newest_first ==
    /\ after_queue # <<>>
    /\ after_queue' = SubSeq(after_queue, 1, Len(after_queue) - 1)
    /\ listener' = Append(listener, after_queue[Len(after_queue)])
    /\ IF after_queue[Len(after_queue)].fn = "update_output"
       THEN update_output(after_queue[Len(after_queue)].text)
       ELSE server_stopped
    /\ UNCHANGED <<form, cmd, cmd_text, server_process, run_server, child>>

\* root.mainloop runs the oldest callback of root.after.
mainloop ==
    /\ after_queue # <<>>
    /\ after_queue' = Tail(after_queue)
    /\ listener' = Append(listener, Head(after_queue))
    /\ IF Head(after_queue).fn = "update_output"
       THEN update_output(Head(after_queue).text)
       ELSE server_stopped
    /\ UNCHANGED <<form, cmd, cmd_text, server_process, run_server, child>>

\* save_config writing the dictionary without one key.
save_config_partial(raised) ==
    /\ cmd = Unset
    /\ IF raised
       THEN /\ Messagebox' = "save_error"
            /\ UNCHANGED document
       ELSE /\ document' = json_dump(config_sans_flash_attn)
            /\ Messagebox' = "saved"
    /\ UNCHANGED <<StringVar, IntVar, BooleanVar, custom_arguments,
                   new_arg_entry, cmd, config_file, cmd_text, supervisor,
                   root, TRAY_AVAILABLE>>

\* The "Save Config" button; raised: open() raises.
save_config(raised) ==
    /\ cmd = Unset
    /\ IF raised
       THEN /\ Messagebox' = "save_error"
            /\ UNCHANGED document
       ELSE /\ document' = json_dump(config)
            /\ Messagebox' = "saved"
    /\ UNCHANGED <<StringVar, IntVar, BooleanVar, custom_arguments,
                   new_arg_entry, cmd, config_file, cmd_text, supervisor,
                   root, TRAY_AVAILABLE>>

\* update_all_sliders: every slider takes the value of its variable and
\* snaps it.
update_all_sliders(values) ==
    [n \in IntVarNames |-> round_div(values[n], resolution[n]) * resolution[n]]

\* The settings after the statements of the try block that ran before the
\* first one that raised (reached), the last of them update_all_sliders.
load_statements(loaded, reached) ==
    LET values == [n \in IntVarNames |->
                     IF step_of(n) < reached
                     THEN IntVar_set(get(loaded, n, load_default(n)))
                     ELSE IntVar[n]]
    IN  [StringVar |->
            [n \in StringVarNames |->
                IF step_of(n) < reached
                THEN StringVar_set(get(loaded, n, load_default(n)))
                ELSE StringVar[n]],
         IntVar |->
            IF step_of("update_all_sliders") < reached
            THEN update_all_sliders(values)
            ELSE values,
         BooleanVar |->
            [n \in BooleanVarNames |->
                IF step_of(n) < reached
                THEN BooleanVar_set(get(loaded, n, load_default(n)))
                ELSE BooleanVar[n]],
         custom_arguments_list |->
            IF step_of("custom_arguments_list") < reached
            THEN loaded_arguments(loaded)
            ELSE IF step_of("custom_arguments_list") = reached
            THEN <<>>
            ELSE custom_arguments]

\* The "Load Config" button.
load_config ==
    /\ cmd = Unset
    /\ IF document.kind = "absent"
       THEN /\ Messagebox' = "none"
            /\ UNCHANGED <<StringVar, IntVar, BooleanVar, custom_arguments,
                           config_file>>
       ELSE IF document.kind # "object"
       THEN /\ Messagebox' = "load_error"
            /\ UNCHANGED <<StringVar, IntVar, BooleanVar, custom_arguments,
                           config_file>>
       ELSE \E reached \in {first_raise(json_load(document))} :
            \E after \in {load_statements(json_load(document), reached)} :
            /\ StringVar' = after.StringVar
            /\ IntVar' = after.IntVar
            /\ BooleanVar' = after.BooleanVar
            /\ custom_arguments' = after.custom_arguments_list
            /\ IF reached <= Len(load_steps)
               THEN /\ Messagebox' = "load_error"
                    /\ UNCHANGED config_file
               ELSE /\ config_file' = after
                    /\ Messagebox' = "none"
    /\ UNCHANGED <<new_arg_entry, cmd, cmd_text, supervisor, document, root,
                   TRAY_AVAILABLE>>

\* The file is replaced, removed or made unreadable outside the program.
write_document(doc) ==
    /\ document' = doc
    /\ doc # document
    /\ UNCHANGED <<StringVar, IntVar, BooleanVar, custom_arguments,
                   new_arg_entry, cmd, config_file, cmd_text, supervisor,
                   Messagebox, root, TRAY_AVAILABLE>>

\* on_closing, the handler of WM_DELETE_WINDOW: hide_to_tray withdraws the
\* window, else the process of the handle is asked to terminate and the
\* window is destroyed.
on_closing ==
    /\ root = "normal"
    /\ IF is_running /\ TRAY_AVAILABLE
       THEN /\ root' = "withdrawn"
            /\ UNCHANGED child
       ELSE /\ root' = "destroyed"
            /\ child' = IF server_process # 0
                        THEN [child EXCEPT ![server_process].terminate =
                                  @ \/ child[server_process].state = "alive"]
                        ELSE child
    /\ UNCHANGED <<StringVar, IntVar, BooleanVar, custom_arguments,
                   new_arg_entry, cmd, config_file, cmd_text, is_running,
                   server_process, start_button, stop_button, browser_button,
                   output_text, after_queue, run_server, listener, document,
                   Messagebox, TRAY_AVAILABLE>>

\* "Show Window" of the tray menu: the UI loop runs root.deiconify.
show_window ==
    /\ root = "withdrawn"
    /\ root' = "normal"
    /\ UNCHANGED <<StringVar, IntVar, BooleanVar, custom_arguments,
                   new_arg_entry, cmd, config_file, cmd_text, supervisor,
                   document, Messagebox, TRAY_AVAILABLE>>

\* root.mainloop() returns after root.destroy(), main returns and the
\* interpreter exits, the daemon threads with it.
exit ==
    /\ root = "destroyed"
    /\ root' = "exit"
    /\ UNCHANGED <<StringVar, IntVar, BooleanVar, custom_arguments,
                   new_arg_entry, cmd, config_file, cmd_text, supervisor,
                   document, Messagebox, TRAY_AVAILABLE>>

\* The operations on the custom-argument list that keep it free of duplicates.
NextArgs ==
    \/ \E text \in ArgTexts : type_new_arg(text)
    \/ add_custom_argument
    \/ \E i \in 1..Len(custom_arguments) : on_toggle(i)
    \/ \E i \in 1..Len(custom_arguments) : delete_custom_argument(i)

NextCmd ==
    \/ \E n \in StringVarNames : \E v \in StringInputs(n) : create_entry(n, v)
    \/ \E n \in BooleanVarNames : create_checkbutton(n)
    \/ \E n \in IntVarNames : \E raw \in SliderInputs(n) : update_slider_label(n, raw)
    \/ NextArgs
    \/ \E i \in 1..Len(custom_arguments) : \E text \in ArgTexts : save_edit(i, text)
    \/ show_command
    \/ close_command_window

\* Editing the form and generating the command.
SpecCmd == Init /\ [][NextCmd]_vars

\* Only add, toggle and delete on the custom-argument list.
SpecArgs == Init /\ [][NextArgs]_vars

\* The steps of the reader thread of run r.
run_server_step(r) ==
    \/ \E outcome \in PopenOutcomes : Popen(r, outcome)
    \/ readline(r)
    \/ wait(r)
    \/ except(r)
    \/ after_server_stopped(r)

\* The steps of the child of run r.
child_step(r) ==
    \/ \E chunk \in Chunks : child_write(r, chunk)
    \/ child_close(r)
    \/ \E returncode \in ReturnCodes : child_exit(r, returncode)

\* Editing the model path, previewing and starting, with a reader thread, a
\* UI loop and a child that writes nothing; no stop request.
NextRun ==
    \/ \E v \in {<<>>, config_file.StringVar["model_path"]} :
          create_entry("model_path", v)
    \/ show_command
    \/ close_command_window
    \/ start_server
    \/ mainloop
    \/ \E r \in 1..Len(run_server) : run_server_step(r)
    \/ \E r \in 1..Len(child) : child_close(r)
    \/ \E r \in 1..Len(child) : \E returncode \in ReturnCodes : child_exit(r, returncode)

\* The program started on the configuration file of a first start or on the
\* file with every setting set.
InitRun ==
    /\ Init
    /\ config_file \in {DefaultConfig, FullConfig}

SpecRun == InitRun /\ [][NextRun]_vars

\* Start and stop requests, the reader thread, the child and the UI loop
\* interleaved, the settings left as the configuration file gave them.
NextSup ==
    \/ start_server
    \/ \E raised \in BOOLEAN : stop_server(raised)
    \/ mainloop
    \/ \E r \in 1..Len(run_server) : run_server_step(r)
    \/ \E r \in 1..Len(child) : child_step(r)

\* The program started on the file with every setting set.
InitSup ==
    /\ Init
    /\ config_file = FullConfig

SpecSup == InitSup /\ [][NextSup]_vars

\* The same, where the reader thread that can take a step takes one and the
\* UI loop runs a pending callback; the child is not obliged to do anything.
SpecSupFair ==
    /\ SpecSup
    /\ WF_vars(mainloop)
    /\ WF_vars(\E r \in 1..Len(run_server) : run_server_step(r))

\* The settings whose edits are followed through a save and a load.
SavedNames == {"flash_attn", "api_key"}

\* Editing, saving and loading again; the file is written while the settings
\* are within one edit of a configuration found at start-up.
NextSave ==
    \/ \E n \in SavedNames : \E v \in StringInputs(n) : create_entry(n, v)
    \/ create_checkbutton("jinja")
    \/ \E raw \in SliderInputs("ctx_size") : update_slider_label("ctx_size", raw)
    \/ \E i \in 1..Len(custom_arguments) : on_toggle(i)
    \/ \E i \in 1..Len(custom_arguments) : delete_custom_argument(i)
    \/ \E i \in 1..Len(custom_arguments) : \E text \in ArgTexts : save_edit(i, text)
    \/ \E raised \in BOOLEAN : config_file \in ConfigFiles /\ save_config(raised)
    \/ load_config

SpecSave == InitRun /\ [][NextSave]_vars

\* Loading whatever the file holds, moving the sliders and working on the
\* list of custom arguments in between.
NextLoad ==
    \/ \E doc \in Documents : write_document(doc)
    \/ load_config
    \/ \E n \in IntVarNames : \E raw \in SliderInputs(n) : update_slider_label(n, raw)

SpecLoad == Init /\ [][NextLoad]_vars

\* A list loaded from the file, with two equal entries or edited in place
\* into one, its check boxes and its "Delete" buttons.
NextList ==
    \/ write_document([kind |-> "object",
                       object |-> with(FullObject, "custom_arguments_list",
                                       array(RepeatedArguments))])
    \/ load_config
    \/ \E i \in 1..Len(custom_arguments) : \E text \in ArgTexts : save_edit(i, text)
    \/ \E i \in 1..Len(custom_arguments) : on_toggle(i)
    \/ \E i \in 1..Len(custom_arguments) : delete_custom_argument(i)

SpecList == Init /\ [][NextList]_vars

\* Start requests and the closing of the window, with the reader thread,
\* the UI loop and the child.  The buttons need the window, the UI loop runs
\* until the window is destroyed; between root.destroy() and the exit of the
\* interpreter a reader thread can still call Popen (its later statements
\* fail in root.after and touch no child); a child outlives the program.
NextClose ==
    \/ root = "normal" /\ start_server
    \/ on_closing
    \/ show_window
    \/ exit
    \/ root \in {"normal", "withdrawn"} /\ mainloop
    \/ \E r \in 1..Len(run_server) :
          root \in {"normal", "withdrawn"} /\ run_server_step(r)
    \/ \E r \in 1..Len(run_server) : \E outcome \in PopenOutcomes :
          root = "destroyed" /\ Popen(r, outcome)
    \/ \E r \in 1..Len(child) : child_step(r)

\* The program started on the file with every setting set, with or without
\* tray support.
InitClose ==
    /\ LlamaServerGUI
    /\ config_file = FullConfig
    /\ TRAY_AVAILABLE \in BOOLEAN

SpecClose == InitClose /\ [][NextClose]_vars

\* Start requests, the reader thread, the UI loop and the child; no stop
\* request.
NextExit ==
    \/ start_server
    \/ mainloop
    \/ \E r \in 1..Len(run_server) : run_server_step(r)
    \/ \E r \in 1..Len(child) : child_step(r)

\* The same under fair scheduling of the reader thread and the UI loop, with
\* a child that, once started, exits in the end.
SpecExit ==
    /\ InitSup
    /\ [][NextExit]_vars
    /\ WF_vars(mainloop)
    /\ WF_vars(\E r \in 1..Len(run_server) : run_server_step(r))
    /\ WF_vars(\E r \in 1..Len(child) : \E returncode \in ReturnCodes :
                  child_exit(r, returncode))

(***************************************************************************)
(* Vocabulary of the properties, stated without the program's operators.   *)
(***************************************************************************)

\* s is empty or consists only of whitespace.
IsBlank(s) == \A i \in 1..Len(s) : s[i] \in Whitespace

\* s without its leading and trailing whitespace.
TrimOf(s) ==
    IF IsBlank(s) THEN <<>>
    ELSE LET ink == {i \in 1..Len(s) : s[i] \notin Whitespace}
             a == CHOOSE i \in ink : \A j \in ink : i <= j
             b == CHOOSE i \in ink : \A j \in ink : j <= i
         IN  SubSeq(s, a, b)

\* The number a decimal numeral denotes (-1 when t is no canonical numeral).
DigitValue(c) ==
    IF \E d \in 1..10 : DecimalDigits[d] = c
    THEN (CHOOSE d \in 1..10 : DecimalDigits[d] = c) - 1
    ELSE -1

RECURSIVE NumeralValue(_)
NumeralValue(t) ==
    IF t = <<>> THEN 0
    ELSE 10 * NumeralValue(SubSeq(t, 1, Len(t) - 1)) + DigitValue(t[Len(t)])

IsNumeralOf(t, n) ==
    /\ t # <<>>
    /\ \A i \in 1..Len(t) : DigitValue(t[i]) >= 0
    /\ Len(t) > 1 => t[1] # "0"
    /\ NumeralValue(t) = n

\* The setting held by a string variable.
Setting(n) == StringVar[n]

\* Every string setting but the model path is empty, every check button is
\* off, and there is no custom argument.
AllOptionalEmpty ==
    /\ \A n \in StringVarNames \ {"model_path"} : StringVar[n] = <<>>
    /\ \A n \in BooleanVarNames : ~BooleanVar[n]
    /\ custom_arguments = <<>>

\* C1: whenever the model path is empty or whitespace only, the call of
\* generate_command returns None, whatever the other settings are.
Thm_C1 ==
    (cmd # Unset /\ IsBlank(Setting("model_path"))) => cmd = None

\* A call returned None for a whitespace-only model path while every check
\* button was on.
Wit_C1 ==
    /\ cmd = None
    /\ Setting("model_path") = <<" ", "\t">>
    /\ \A n \in BooleanVarNames : BooleanVar[n]

\* C2: the first seven tokens of every vector are the executable, -m, the
\* trimmed model path, -c, the context size, -ngl and the GPU layer count;
\* for model.gguf, 4096, 99 and nothing else set they are the whole vector.
Thm_C2 ==
    /\ cmd.kind = "list" =>
          /\ Len(cmd.argv) >= 7
          /\ cmd.argv[1] = <<"l", "l", "a", "m", "a", "-", "s", "e", "r", "v", "e", "r">>
          /\ cmd.argv[2] = <<"-", "m">>
          /\ cmd.argv[3] = TrimOf(Setting("model_path"))
          /\ cmd.argv[4] = <<"-", "c">>
          /\ IsNumeralOf(cmd.argv[5], IntVar["ctx_size"])
          /\ cmd.argv[6] = <<"-", "n", "g", "l">>
          /\ IsNumeralOf(cmd.argv[7], IntVar["gpu_layers"])
    /\ ( /\ cmd # Unset
         /\ Setting("model_path") = <<"m", "o", "d", "e", "l", ".", "g", "g", "u", "f">>
         /\ IntVar["ctx_size"] = 4096
         /\ IntVar["gpu_layers"] = 99
         /\ AllOptionalEmpty )
       => cmd.argv = << <<"l", "l", "a", "m", "a", "-", "s", "e", "r", "v", "e", "r">>,
                        <<"-", "m">>, <<"m", "o", "d", "e", "l", ".", "g", "g", "u", "f">>,
                        <<"-", "c">>, <<"4", "0", "9", "6">>,
                        <<"-", "n", "g", "l">>, <<"9", "9">> >>

\* The seven-token vector was returned for the bare configuration.
Wit_C2 ==
    /\ cmd.kind = "list"
    /\ Len(cmd.argv) = 7
    /\ Setting("model_path") = <<"m", "o", "d", "e", "l", ".", "g", "g", "u", "f">>
    /\ IntVar["ctx_size"] = 4096
    /\ IntVar["gpu_layers"] = 99
    /\ AllOptionalEmpty

(***************************************************************************)
(* The layout of a vector, computed from the settings alone.               *)
(***************************************************************************)

\* The flags of the optional value arguments, in the order of the table.
OptionalFlags ==
    << <<"-", "-", "h", "o", "s", "t">>,
       <<"-", "-", "p", "o", "r", "t">>,
       <<"-", "a">>,
       <<"-", "-", "a", "p", "i", "-", "k", "e", "y">>,
       <<"-", "t">>,
       <<"-", "b">>,
       <<"-", "n", "p">>,
       <<"-", "-", "l", "o", "r", "a">>,
       <<"-", "-", "m", "m", "p", "r", "o", "j">>,
       <<"-", "-", "c", "h", "a", "t", "-", "t", "e", "m", "p", "l", "a", "t", "e">>,
       <<"-", "m", "d">>,
       <<"-", "n", "g", "l", "d">>,
       <<"-", "-", "d", "r", "a", "f", "t">>,
       <<"-", "-", "n", "-", "c", "p", "u", "-", "m", "o", "e">>,
       <<"-", "-", "r", "e", "a", "s", "o", "n", "i", "n", "g", "-", "f", "o", "r", "m", "a", "t">>,
       <<"-", "u", "b">>,
       <<"-", "n">>,
       <<"-", "-", "t", "e", "m", "p">>,
       <<"-", "-", "t", "o", "p", "-", "k">>,
       <<"-", "-", "t", "o", "p", "-", "p">>,
       <<"-", "-", "r", "e", "p", "e", "a", "t", "-", "p", "e", "n", "a", "l", "t", "y">> >>

\* The flags of the bare boolean arguments, in the order of the table.
BooleanFlags ==
    << <<"-", "-", "n", "o", "-", "m", "m", "a", "p">>,
       <<"-", "-", "n", "o", "-", "w", "e", "b", "u", "i">>,
       <<"-", "c", "b">>,
       <<"-", "-", "m", "l", "o", "c", "k">>,
       <<"-", "-", "e", "m", "b", "e", "d", "d", "i", "n", "g">>,
       <<"-", "-", "j", "i", "n", "j", "a">>,
       <<"-", "v">>,
       <<"-", "-", "i", "g", "n", "o", "r", "e", "-", "e", "o", "s">> >>

VarOfFlag(f) == args[CHOOSE i \in 1..Len(args) : args[i].flag = f].var

VarOfBooleanFlag(f) ==
    bool_args[CHOOSE i \in 1..Len(bool_args) : bool_args[i].flag = f].var

FlagOfBoolean(n) ==
    bool_args[CHOOSE i \in 1..Len(bool_args) : bool_args[i].var = n].flag

IsSetFlag(f) == ~IsBlank(Setting(VarOfFlag(f)))

IsOnFlag(f) == BooleanVar[VarOfBooleanFlag(f)]

\* The optional flags whose setting is not blank, and the boolean flags
\* whose setting is on, in table order.
PresentFlags == SelectSeq(OptionalFlags, IsSetFlag)
OnFlags == SelectSeq(BooleanFlags, IsOnFlag)

ReasoningSet == ~IsBlank(Setting("reasoning_effort"))

FlashSet ==
    /\ ~IsBlank(Setting("flash_attn"))
    /\ TrimOf(Setting("flash_attn")) # <<"a", "u", "t", "o">>

\* Where each group of structured tokens ends.
EndValues == 7 + 2 * Len(PresentFlags)
EndReasoning == EndValues + (IF ReasoningSet THEN 2 ELSE 0)
EndFlash == EndReasoning + (IF FlashSet THEN 2 ELSE 0)
EndBooleans == EndFlash + Len(OnFlags)
EndStructured == EndBooleans + (IF BooleanVar["numa"] THEN 2 ELSE 0)

\* The whitespace-separated words of s.
WordStarts(s) ==
    {i \in 1..Len(s) :
        s[i] \notin Whitespace /\ (i = 1 \/ s[i - 1] \in Whitespace)}

WordFrom(s, i) ==
    LET b == CHOOSE j \in i..Len(s) :
                /\ \A k \in i..j : s[k] \notin Whitespace
                /\ (j = Len(s) \/ s[j + 1] \in Whitespace)
    IN  SubSeq(s, i, b)

WordsOf(s) ==
    [k \in 1..Cardinality(WordStarts(s)) |->
        WordFrom(s, CHOOSE i \in WordStarts(s) :
                        Cardinality({j \in WordStarts(s) : j < i}) = k - 1)]

\* The words of the enabled entries of a list, in list order.
RECURSIVE EnabledWords(_)
EnabledWords(list) ==
    IF list = <<>> THEN <<>>
    ELSE (IF Head(list).enabled THEN WordsOf(Head(list).value) ELSE <<>>)
         \o EnabledWords(Tail(list))

\* The structured tokens of a vector: all but the custom-argument tail.
Structured(argv) == SubSeq(argv, 1, EndStructured)

Occurs(tok, argv) == \E p \in 1..Len(argv) : argv[p] = tok

RemoveAt(s, p) == SubSeq(s, 1, p - 1) \o SubSeq(s, p + 1, Len(s))

Thm_C4 ==
    cmd.kind = "list" =>
        /\ FlashSet =>
              /\ cmd.argv[EndReasoning + 1] = <<"-", "f", "a">>
              /\ cmd.argv[EndReasoning + 2] = TrimOf(Setting("flash_attn"))
        /\ Setting("flash_attn") = <<"o", "n">> =>
              \E p \in 1..(Len(cmd.argv) - 1) :
                  /\ cmd.argv[p] = <<"-", "f", "a">>
                  /\ cmd.argv[p + 1] = <<"o", "n">>
        /\ \A p \in 1..EndStructured :
              cmd.argv[p] = <<"-", "f", "a">> =>
                  /\ FlashSet
                  /\ p = EndReasoning + 1
                  /\ p < EndStructured
        /\ Setting("flash_attn") = <<"a", "u", "t", "o">> =>
              ~Occurs(<<"-", "f", "a">>, Structured(cmd.argv))

\* The user selected "on" and the vector holds -fa on.
Wit_C4 ==
    /\ cmd.kind = "list"
    /\ Setting("flash_attn") = <<"o", "n">>
    /\ config_file.StringVar["flash_attn"] = <<"a", "u", "t", "o">>
    /\ cmd.argv[EndReasoning + 1] = <<"-", "f", "a">>

\* The body of a JSON string literal is well formed / what it denotes.
RECURSIVE JsonBodyValid(_)
JsonBodyValid(s) ==
    IF s = <<>> THEN TRUE
    ELSE IF Head(s) = "\\"
         THEN /\ Len(s) >= 2
              /\ s[2] \in {"\"", "\\", "/", "b", "f", "n", "r", "t"}
              /\ JsonBodyValid(SubSeq(s, 3, Len(s)))
         ELSE /\ Head(s) \notin {"\"", "\t", "\n"}
              /\ JsonBodyValid(Tail(s))

JsonEscaped(c) ==
    IF c = "t" THEN "\t" ELSE IF c = "n" THEN "\n" ELSE c

RECURSIVE JsonBodyValue(_)
JsonBodyValue(s) ==
    IF s = <<>> THEN <<>>
    ELSE IF Head(s) = "\\"
         THEN <<JsonEscaped(s[2])>> \o JsonBodyValue(SubSeq(s, 3, Len(s)))
         ELSE <<Head(s)>> \o JsonBodyValue(Tail(s))

\* J is a JSON text that parses as the object {"reasoning_effort": v}.
ParsesAsKwargs(J, v) ==
    LET open == <<"{", "\"", "r", "e", "a", "s", "o", "n", "i", "n", "g", "_", "e", "f", "f", "o", "r", "t", "\"", ":", " ", "\"">>
        body == SubSeq(J, Len(open) + 1, Len(J) - 2)
    IN  /\ Len(J) >= Len(open) + 2
        /\ SubSeq(J, 1, Len(open)) = open
        /\ SubSeq(J, Len(J) - 1, Len(J)) = <<"\"", "}">>
        /\ JsonBodyValid(body)
        /\ JsonBodyValue(body) = v

KwargsFlag == <<"-", "-", "c", "h", "a", "t", "-", "t", "e", "m", "p", "l", "a", "t", "e", "-", "k", "w", "a", "r", "g", "s">>

\* C5: a reasoning effort v that is not blank is passed as the pair
\* --chat-template-kwargs J with J parsing as {"reasoning_effort": v}, and
\* never as a flag of its own; a blank one adds no --chat-template-kwargs.
Thm_C5 ==
    cmd.kind = "list" =>
        /\ ReasoningSet =>
              /\ cmd.argv[EndValues + 1] = KwargsFlag
              /\ ParsesAsKwargs(cmd.argv[EndValues + 2],
                                Setting("reasoning_effort"))
        /\ ~ReasoningSet => ~Occurs(KwargsFlag, Structured(cmd.argv))
        /\ \A p \in 1..EndStructured :
              /\ cmd.argv[p] = KwargsFlag => p = EndValues + 1
              /\ cmd.argv[p] # <<"-", "-", "r", "e", "a", "s", "o", "n", "i", "n", "g", "-", "e", "f", "f", "o", "r", "t">>
              /\ cmd.argv[p] # <<"-", "-", "r", "e", "a", "s", "o", "n", "i", "n", "g", "_", "e", "f", "f", "o", "r", "t">>

\* The user typed an effort holding a quote and a backslash, and the vector
\* holds the kwargs pair.
Wit_C5 ==
    /\ cmd.kind = "list"
    /\ Setting("reasoning_effort") = <<" ", "l", "\"", "o", "\\", " ">>
    /\ cmd.argv[EndValues + 1] = KwargsFlag

\* C6: switching one check button of the boolean table changes the vector
\* by exactly its bare flag: the vector with the button on, with one
\* occurrence of the flag deleted, is the vector with the button off.
Thm_C6 ==
    [][\A n \in BoolArgVars :
          (create_checkbutton(n) /\ ~IsBlank(Setting("model_path"))) =>
              \E before \in {generate_command.argv} :
              \E after \in {generate_command'.argv} :
              \E on \in {IF BooleanVar[n] THEN before ELSE after} :
              \E off \in {IF BooleanVar[n] THEN after ELSE before} :
                  /\ Len(on) = Len(off) + 1
                  /\ \E p \in 1..Len(on) :
                        /\ on[p] = FlagOfBoolean(n)
                        /\ RemoveAt(on, p) = off]_vars

\* --mlock was switched on and the vector holds it among the other flags.
Wit_C6 ==
    /\ cmd.kind = "list"
    /\ BooleanVar["mlock"] /\ ~config_file.BooleanVar["mlock"]
    /\ Occurs(FlagOfBoolean("mlock"), Structured(cmd.argv))

\* C7: with NUMA on the vector holds --numa distribute right after the
\* boolean flags and right before the custom-argument tokens; with NUMA off
\* no structured token is --numa.
Thm_C7 ==
    cmd.kind = "list" =>
        /\ SubSeq(cmd.argv, EndFlash + 1, EndBooleans) = OnFlags
        /\ BooleanVar["numa"] =>
              /\ cmd.argv[EndBooleans + 1] = <<"-", "-", "n", "u", "m", "a">>
              /\ cmd.argv[EndBooleans + 2] = <<"d", "i", "s", "t", "r", "i", "b", "u", "t", "e">>
              /\ EndStructured = EndBooleans + 2
              /\ SubSeq(cmd.argv, EndStructured + 1, Len(cmd.argv))
                    = EnabledWords(custom_arguments)
        /\ ~BooleanVar["numa"] => ~Occurs(<<"-", "-", "n", "u", "m", "a">>, Structured(cmd.argv))

\* NUMA on, with boolean flags before the pair and custom tokens after it.
Wit_C7 ==
    /\ cmd.kind = "list"
    /\ BooleanVar["numa"]
    /\ Len(OnFlags) > 0
    /\ Len(cmd.argv) > EndStructured
    /\ cmd.argv[EndBooleans + 1] = <<"-", "-", "n", "u", "m", "a">>

\* C8: the vector ends with the words of the enabled custom arguments, in
\* list order, and a change of the list leaves the structured part as it
\* was.
Thm_C8 ==
    [][/\ (cmd = Unset /\ cmd' # Unset /\ show_command) =>
            (cmd'.kind = "list" =>
                /\ Len(cmd'.argv)
                      = EndStructured + Len(EnabledWords(custom_arguments))
                /\ SubSeq(cmd'.argv, EndStructured + 1, Len(cmd'.argv))
                      = EnabledWords(custom_arguments))
       /\ (/\ custom_arguments' # custom_arguments
           /\ ~IsBlank(Setting("model_path")))
          => \E before \in {generate_command.argv} :
             \E after \in {generate_command'.argv} :
                Structured(before) = Structured(after)]_vars

\* A vector ending in --foo bar, from a list whose other entry is disabled.
Wit_C8 ==
    /\ cmd.kind = "list"
    /\ Len(custom_arguments) = 2
    /\ \E i \in 1..2 : ~custom_arguments[i].enabled
    /\ Len(cmd.argv) = EndStructured + 2
    /\ cmd.argv[Len(cmd.argv)] = <<"b", "a", "r">>

\* C9: the "Add" button leaves the list as it was when the trimmed text is
\* empty or is the value of an entry of the list; otherwise the list grows
\* by one entry at its end, the trimmed text enabled, and the entries it
\* had keep their values, flags and places.
Thm_C9 ==
    [][add_custom_argument =>
          \E text \in {TrimOf(new_arg_entry)} :
              IF \/ text = <<>>
                 \/ \E i \in 1..Len(custom_arguments) :
                        custom_arguments[i].value = text
              THEN custom_arguments' = custom_arguments
              ELSE /\ Len(custom_arguments') = Len(custom_arguments) + 1
                   /\ custom_arguments'[Len(custom_arguments')]
                         = [value |-> text, enabled |-> TRUE]
                   /\ SubSeq(custom_arguments', 1, Len(custom_arguments))
                         = custom_arguments]_vars

\* " -x " was added to the list of the file: the new last row is -x,
\* enabled, behind a disabled row, and the entry field is cleared.
Wit_C9 ==
    /\ Len(custom_arguments) = Len(config_file.custom_arguments_list) + 1
    /\ custom_arguments[Len(custom_arguments)]
          = [value |-> <<"-", "x">>, enabled |-> TRUE]
    /\ ~custom_arguments[1].enabled
    /\ new_arg_entry = <<>>

\* C10: under add, toggle and delete, started from a list without
\* duplicates, no two rows of the list have the same value.
Thm_C10 ==
    \A i, j \in 1..Len(custom_arguments) :
        custom_arguments[i].value = custom_arguments[j].value => i = j

\* Two rows added by the user, and the entry field holds the value of one
\* of them again.
Wit_C10 ==
    /\ config_file.custom_arguments_list = <<>>
    /\ Len(custom_arguments) = 2
    /\ ~IsBlank(new_arg_entry)
    /\ \E i \in 1..2 : custom_arguments[i].value = TrimOf(new_arg_entry)

\* argv is the vector the settings and the custom-argument list spell: the
\* fixed tokens, then the groups in the order of the flag tables, then the
\* words of the enabled custom arguments in list order.
VectorOf(argv) ==
    /\ Len(argv) = EndStructured + Len(EnabledWords(custom_arguments))
    /\ argv[1] = <<"l", "l", "a", "m", "a", "-", "s", "e", "r", "v", "e", "r">>
    /\ argv[2] = <<"-", "m">>
    /\ argv[3] = TrimOf(Setting("model_path"))
    /\ argv[4] = <<"-", "c">>
    /\ IsNumeralOf(argv[5], IntVar["ctx_size"])
    /\ argv[6] = <<"-", "n", "g", "l">>
    /\ IsNumeralOf(argv[7], IntVar["gpu_layers"])
    /\ \A j \in 1..Len(PresentFlags) :
          /\ argv[6 + 2 * j] = PresentFlags[j]
          /\ argv[7 + 2 * j] = TrimOf(Setting(VarOfFlag(PresentFlags[j])))
    /\ ReasoningSet =>
          /\ argv[EndValues + 1] = KwargsFlag
          /\ ParsesAsKwargs(argv[EndValues + 2], Setting("reasoning_effort"))
    /\ FlashSet =>
          /\ argv[EndReasoning + 1] = <<"-", "f", "a">>
          /\ argv[EndReasoning + 2] = TrimOf(Setting("flash_attn"))
    /\ SubSeq(argv, EndFlash + 1, EndBooleans) = OnFlags
    /\ BooleanVar["numa"] =>
          /\ argv[EndBooleans + 1] = <<"-", "-", "n", "u", "m", "a">>
          /\ argv[EndBooleans + 2] = <<"d", "i", "s", "t", "r", "i", "b", "u", "t", "e">>
    /\ SubSeq(argv, EndStructured + 1, Len(argv)) = EnabledWords(custom_arguments)

\* C11: what generate_command returns depends on the settings and the
\* custom-argument list alone: every call (of the preview and of a start
\* request) returns the vector they spell, flag tables first and list
\* order after, so that a start request made while a preview is shown gets
\* the previewed vector token for token; and no call changes a setting, a
\* custom argument or the state of the supervision.
Thm_C11 ==
    [][/\ (cmd = Unset /\ cmd' # Unset) =>
             /\ cmd'.kind = "list" => VectorOf(cmd'.argv)
             /\ form' = form
             /\ supervisor' = supervisor
       /\ Len(run_server') > Len(run_server) =>
             /\ VectorOf(run_server'[Len(run_server')].cmd)
             /\ cmd.kind = "list" => run_server'[Len(run_server')].cmd = cmd.argv
             /\ form' = form]_vars

\* A preview made while the first server ran is still shown when the second
\* start request is accepted with the same vector.
Wit_C11 ==
    /\ Len(run_server) = 2
    /\ cmd.kind = "list"
    /\ run_server[2].cmd = cmd.argv
    /\ run_server[2].pc = "Popen"
    /\ Len(cmd.argv) > EndStructured

\* The tokens of argv joined by single spaces, a token in double quotes when
\* it holds a space (wide: when it holds any whitespace character).
HasSpaceChar(t) == \E i \in 1..Len(t) : t[i] = " "
HasWhitespace(t) == \E i \in 1..Len(t) : t[i] \in Whitespace

InQuotes(t, wide) ==
    IF (wide /\ HasWhitespace(t)) \/ HasSpaceChar(t)
    THEN <<"\"">> \o t \o <<"\"">>
    ELSE t

\* The tokens lo..hi of toks, with one space between neighbours.
RECURSIVE Spaced(_, _, _)
Spaced(toks, lo, hi) ==
    IF lo > hi THEN <<>>
    ELSE IF lo = hi THEN toks[lo]
    ELSE Spaced(toks, lo, (lo + hi) \div 2) \o <<" ">>
            \o Spaced(toks, (lo + hi) \div 2 + 1, hi)

RenderedAs(argv, wide) ==
    Spaced([p \in 1..Len(argv) |-> InQuotes(argv[p], wide)], 1, Len(argv))

\* The preview shows, and the log of the last run starts with, the
\* rendering of the vector, and the child of the last run was started with
\* the vector the log shows.
ShownAs(whitespace) ==
    /\ cmd.kind = "list" => cmd_text = RenderedAs(cmd.argv, whitespace)
    /\ Len(run_server) > 0 =>
          \E r \in {Len(run_server)} :
          \E line \in {RenderedAs(run_server[r].cmd, whitespace)} :
              /\ Len(output_text) > 0
              /\ Len(output_text[1]) = Len(line) + 4
              /\ SubSeq(output_text[1], 2, Len(line) + 1) = line
              /\ child[r].state \in {"alive", "exited"} =>
                    child[r].argv = run_server[r].cmd

\* C12: the preview and the logged command line are the tokens of the vector
\* joined by single spaces, every token that holds whitespace in double
\* quotes and every other token copied as it is, nothing inside a token
\* escaped; both are rendered from the vector the child is started with.
Cex_C12 == ShownAs(TRUE)

\* What show_command and start_server render: a token is in double quotes
\* exactly when it holds a space character, so a token holding a tab and no
\* space is shown bare.
Shown_C12 == ShownAs(FALSE)

\* The preview is open and the server runs, on a vector with a token that
\* holds a space and a token that holds a tab.
Shown_C12_reached ==
    /\ cmd.kind = "list"
    /\ Len(run_server) > 0
    /\ child[Len(run_server)].state = "alive"
    /\ \E p \in 1..Len(cmd.argv) : HasSpaceChar(cmd.argv[p])
    /\ \E p \in 1..Len(cmd.argv) :
          HasWhitespace(cmd.argv[p]) /\ ~HasSpaceChar(cmd.argv[p])

\* The number of children of the supervisor that are alive.
AliveCount == Cardinality({r \in 1..Len(child) : child[r].state = "alive"})

\* s is a prefix of t.
IsPrefix(s, t) == Len(s) <= Len(t) /\ SubSeq(t, 1, Len(s)) = s

\* C13: over every interleaving at most one child is alive, and a start
\* request made while is_running is true changes no state: while running no
\* run, reader thread or child is added and the log is only appended to.
Thm_C13 ==
    [][/\ AliveCount' <= 1
       /\ (is_running /\ start_server) => vars' = vars
       /\ is_running =>
             /\ Len(run_server') = Len(run_server)
             /\ Len(child') = Len(child)
             /\ IsPrefix(output_text, output_text')
             /\ \A r \in 1..Len(child) :
                   child'[r].state = "alive" =>
                      child[r].state \in {"unborn", "alive"}]_vars

\* A second run is alive after the child of the first run has exited.
Wit_C13 ==
    /\ is_running
    /\ Len(run_server) = 2
    /\ child[1].state = "exited"
    /\ child[2].state = "alive"
    /\ AliveCount = 1

\* C14: a start request with a blank model path leaves the supervisor as it
\* was: is_running, the process handle, the buttons and the log are
\* unchanged, no reader thread is started and no child is spawned.
Thm_C14 ==
    [][(IsBlank(Setting("model_path")) /\ start_server) =>
          /\ is_running' = is_running
          /\ server_process' = server_process
          /\ <<start_button', stop_button', browser_button'>> =
                <<start_button, stop_button, browser_button>>
          /\ output_text' = output_text
          /\ run_server' = run_server
          /\ child' = child
          /\ after_queue' = after_queue
          /\ cmd' = None]_vars

\* The command was refused for a blank model path after a run that left a
\* process handle and a log behind.
Wit_C14 ==
    /\ cmd = None
    /\ IsBlank(Setting("model_path"))
    /\ ~is_running
    /\ server_process # 0
    /\ Len(output_text) > 1

\* The number of entries of the sequence of callbacks q that are the stopped
\* notification of run r.
StoppedIn(q, r) ==
    Cardinality({i \in 1..Len(q) : q[i].fn = "server_stopped" /\ q[i].run = r})

\* The child of run r has exited, or was never started.
ChildGone(r) ==
    /\ r \in 1..Len(child)
    /\ child[r].state \in {"exited", "FileNotFoundError", "Exception"}

\* C15: for every accepted start request the stopped notification is
\* delivered exactly once for that run and after it is_running is false,
\* whether the child exits with status zero, with another status or after a
\* stop request: it is posted once, by the thread's last statement, the run
\* it is delivered for is over, and once the child is gone it is delivered.
Thm_C15 ==
    /\ [](\A r \in 1..Len(run_server) :
            /\ StoppedIn(after_queue, r) + StoppedIn(listener, r) <= 1
            /\ StoppedIn(after_queue, r) + StoppedIn(listener, r) = 1
                  <=> run_server[r].pc = "done"
            /\ r < Len(run_server) => StoppedIn(listener, r) = 1
            /\ StoppedIn(listener, r) = 1 /\ r = Len(run_server) => ~is_running
            /\ StoppedIn(listener, r) = 0 /\ r = Len(run_server) => is_running
            /\ StoppedIn(after_queue, r) + StoppedIn(listener, r) = 1
                  => ChildGone(r))
    /\ ChildGone(Len(run_server)) ~> ~is_running

\* The stopped notification of the second run has been delivered, the child
\* having exited with a status other than zero after a stop request, and
\* the one of the first run before it.
Wit_C15 ==
    /\ Len(run_server) = 2
    /\ StoppedIn(listener, 1) = 1
    /\ StoppedIn(listener, 2) = 1
    /\ ~is_running
    /\ child[2].state = "exited" /\ child[2].returncode = 1 /\ child[2].terminate

\* The lines of a stream of bytes: each ends with its newline, but for a last
\* one that the stream ends without.
RECURSIVE LinesFrom(_, _, _)
LinesFrom(bytes, from, at) ==
    IF at > Len(bytes)
    THEN IF from > Len(bytes) THEN <<>> ELSE << SubSeq(bytes, from, Len(bytes)) >>
    ELSE IF bytes[at] = 10
    THEN << SubSeq(bytes, from, at) >> \o LinesFrom(bytes, at + 1, at + 1)
    ELSE LinesFrom(bytes, from, at + 1)

\* The lines of a stream of bytes as the texts the relay makes of them.
TextsOf(bytes) ==
    [i \in 1..Len(LinesFrom(bytes, 1, 1)) |-> decode(LinesFrom(bytes, 1, 1)[i])]

\* The texts of the output lines of run r among the callbacks q, in order.
LinesIn(q, r) ==
    LET IsLine(cb) == cb.fn = "update_output" /\ cb.run = r
    IN  [i \in 1..Len(SelectSeq(q, IsLine)) |-> SelectSeq(q, IsLine)[i].text]

\* Among the callbacks q no output line of run r comes after the stopped
\* notification of run r.
StoppedLast(q, r) ==
    \A i, j \in 1..Len(q) :
        (i < j /\ q[i].run = r /\ q[j].run = r) => q[i].fn # "server_stopped"

\* C16: every line the child writes is delivered to the listener exactly
\* once and in the order written, and the stopped notification of a run is
\* delivered only after every output line of the run: the lines delivered
\* and the lines waiting in the UI loop, followed by the lines still in the
\* pipe, are the lines written; the notification comes last, and when it is
\* delivered the lines delivered are the lines written.
Thm_C16 ==
    \A r \in {Len(run_server)} \ {0} :
        child[r].state \in {"alive", "exited"} =>
            /\ LinesIn(listener \o after_queue, r) \o TextsOf(child[r].stdout)
                  = TextsOf(child[r].written)
            /\ \A i \in 1..Len(listener) :
                  listener[i].fn = "update_output" => listener[i].run = r
            /\ StoppedLast(listener \o after_queue, r)
            /\ StoppedIn(listener, r) = 1 =>
                  LinesIn(listener, r) = TextsOf(child[r].written)

\* The run is over and two lines, all the child wrote, have been delivered.
Wit_C16 ==
    /\ Len(run_server) > 0
    /\ child[Len(run_server)].state = "exited"
    /\ StoppedIn(listener, Len(run_server)) = 1
    /\ Len(LinesIn(listener, Len(run_server))) = 2
    /\ LinesIn(listener, Len(run_server)) = TextsOf(child[Len(run_server)].written)

\* The child of run r could not be started.
SpawnFailed(r) ==
    /\ r \in 1..Len(child)
    /\ child[r].state \in {"FileNotFoundError", "Exception"}

\* What the listener is to receive for a run whose child could not be
\* started: one line that tells the error, then the stopped notification.
FailureReport(r) ==
    << [fn |-> "update_output",
        text |-> IF child[r].state = "FileNotFoundError"
                 THEN not_found_text ELSE spawn_error_text,
        run |-> r],
       [fn |-> "server_stopped", text |-> <<>>, run |-> r] >>

\* The callbacks of run r among the callbacks q, in order.
CallbacksOf(q, r) ==
    LET OfRun(cb) == cb.run = r
    IN  SelectSeq(q, OfRun)

\* C17: when the child cannot be started, for the executable missing or for
\* any other error, the start request itself has returned as any other, the
\* listener receives one error line for the run and then the stopped
\* notification, is_running ends false and a start request is accepted again.
Thm_C17 ==
    /\ [](\A r \in {Len(run_server)} \ {0} :
            SpawnFailed(r) =>
               /\ IsPrefix(CallbacksOf(listener \o after_queue, r), FailureReport(r))
               /\ run_server[r].pc = "done" =>
                     CallbacksOf(listener \o after_queue, r) = FailureReport(r)
               /\ CallbacksOf(listener, r) # FailureReport(r) =>
                     is_running /\ start_button = "disabled"
               /\ CallbacksOf(listener, r) = FailureReport(r) =>
                     ~is_running /\ start_button = "normal")
    /\ [][\A r \in 1..Len(run_server) :
            (~SpawnFailed(r) /\ SpawnFailed(r)') =>
               /\ is_running /\ is_running'
               /\ <<output_text', after_queue', listener', server_process'>> =
                     <<output_text, after_queue, listener, server_process>>]_vars
    /\ SpawnFailed(Len(run_server)) ~> (~is_running /\ start_button = "normal")

\* A second run is alive after a first whose executable was not found and a
\* second start request; the first run's stopped notification was delivered.
Wit_C17 ==
    /\ Len(run_server) = 2
    /\ child[1].state = "FileNotFoundError"
    /\ StoppedIn(listener, 1) = 1
    /\ child[2].state = "alive"

\* The bytes from position at on are well-formed UTF-8 of one- and two-byte
\* sequences.
RECURSIVE WellFormedFrom(_, _)
WellFormedFrom(bytes, at) ==
    IF at > Len(bytes) THEN TRUE
    ELSE IF bytes[at] < 128 THEN WellFormedFrom(bytes, at + 1)
    ELSE /\ bytes[at] \in 194..223
         /\ at < Len(bytes)
         /\ bytes[at + 1] \in 128..191
         /\ WellFormedFrom(bytes, at + 2)

\* The reading of a line in the single-byte encoding: one character a byte,
\* the character with the byte's number.
SingleByte(bytes) == [i \in 1..Len(bytes) |-> chr(bytes[i])]

\* C18: a line of the child's output that is not valid UTF-8 does not end
\* the relay: it is delivered in its single-byte reading like any other
\* line, the lines after it are delivered in order, the reader reaches an
\* except clause only when the child could not be started, and no stopped
\* notification is posted while the child is alive.
Thm_C18 ==
    \A r \in {Len(run_server)} \ {0} :
        /\ run_server[r].pc \in {"FileNotFoundError", "Exception"} => SpawnFailed(r)
        /\ child[r].state = "alive" =>
              /\ StoppedIn(listener \o after_queue, r) = 0
              /\ is_running
        /\ child[r].state \in {"alive", "exited"} =>
              \E lines \in {LinesFrom(child[r].written, 1, 1)} :
              \E relayed \in {LinesIn(listener \o after_queue, r)} :
                  /\ Len(relayed) <= Len(lines)
                  /\ \A i \in 1..Len(relayed) :
                        ~WellFormedFrom(lines[i], 1) => relayed[i] = SingleByte(lines[i])
                  /\ run_server[r].pc \in {"wait", "after server_stopped", "done"}
                        => Len(relayed) = Len(lines)

\* The child is alive and the server running, a line that is not UTF-8 has
\* been delivered in its single-byte reading and the line after it too.
Wit_C18 ==
    /\ Len(run_server) > 0
    /\ child[Len(run_server)].state = "alive"
    /\ is_running
    /\ Len(LinesFrom(child[Len(run_server)].written, 1, 1)) = 2
    /\ ~WellFormedFrom(LinesFrom(child[Len(run_server)].written, 1, 1)[1], 1)
    /\ LinesIn(listener, Len(run_server)) = << <<"U+00FF", "\n">>, <<"B">> >>

\* The child record c but for the terminate request it has got.
SansTerminate(c) == [c EXCEPT !.terminate = FALSE]

\* A step of stop_server changes neither is_running nor the state of any
\* child nor thread, callbacks or buttons; it can mark the alive child of
\* the current run as asked to terminate.
StopOnlyAsks ==
    (\E raised \in BOOLEAN : stop_server(raised)) =>
        /\ is_running' = is_running
        /\ Len(child') = Len(child)
        /\ \A r \in 1..Len(child) :
              /\ SansTerminate(child'[r]) = SansTerminate(child[r])
              /\ child'[r].terminate # child[r].terminate =>
                    r = Len(run_server) /\ child[r].state = "alive"
        /\ <<run_server', after_queue', listener', server_process'>> =
              <<run_server, after_queue, listener, server_process>>
        /\ <<start_button', stop_button', browser_button'>> =
              <<start_button, stop_button, browser_button>>

\* is_running becomes false only by the stopped notification of the current
\* run, whose child is gone and whose reader has finished.
StoppedOnlyByNotification ==
    (is_running /\ ~is_running') =>
        /\ after_queue # <<>>
        /\ Head(after_queue).fn = "server_stopped"
        /\ Head(after_queue).run = Len(run_server)
        /\ child[Len(run_server)].state # "alive"
        /\ run_server[Len(run_server)].pc = "done"
        /\ start_button' = "normal"

\* C19: a stop request asks the child to terminate and returns: stop_server
\* changes neither is_running nor the state of any child (no kill, no wait
\* for the exit); is_running becomes false only by the stopped notification
\* of a run whose child is gone; as long as the child is alive, asked to
\* terminate or not, the supervisor is running and refuses a start request.
Thm_C19 ==
    /\ [][StopOnlyAsks /\ StoppedOnlyByNotification]_vars
    /\ [](\A r \in 1..Len(child) :
            child[r].state = "alive" =>
               /\ is_running
               /\ start_button = "disabled"
               /\ run_server[r].pc \in {"readline", "wait"})

\* The child was asked to terminate and goes on running with its output
\* closed; the reader waits for its exit, no callback is pending and the
\* supervisor is running.
Wit_C19 ==
    /\ Len(run_server) > 0
    /\ child[Len(run_server)].state = "alive"
    /\ child[Len(run_server)].terminate
    /\ ~child[Len(run_server)].open
    /\ run_server[Len(run_server)].pc = "wait"
    /\ after_queue = <<>>
    /\ is_running
    /\ Len(output_text) > 1

\* C20: whenever is_running is true the supervisor holds a process handle,
\* and the handle is the child of the current run, never absent and never
\* the handle of an earlier run.
Cex_C20 ==
    is_running =>
        /\ server_process # 0
        /\ server_process = Len(run_server)
        /\ child[server_process].state \in {"alive", "exited"}

\* What holds instead: the handle is the child of the last run whose Popen
\* returned, which is the current run once its reader thread has passed
\* Popen.
Handle_C20 ==
    /\ server_process <= Len(run_server)
    /\ server_process # 0 => child[server_process].state \in {"alive", "exited"}
    /\ \A r \in 1..Len(run_server) :
          (r > server_process) => child[r].state \notin {"alive", "exited"}

\* The list without the entry at position i.
Removed(list, i) == SubSeq(list, 1, i - 1) \o SubSeq(list, i + 1, Len(list))

DeleteRemovesItsEntry ==
    \A i \in 1..Len(custom_arguments) :
        delete_custom_argument(i) =>
            custom_arguments' = Removed(custom_arguments, i)

ToggleFlipsItsEntry ==
    \A i \in 1..Len(custom_arguments) :
        on_toggle(i) =>
            /\ Len(custom_arguments') = Len(custom_arguments)
            /\ \A j \in 1..Len(custom_arguments) :
                  /\ custom_arguments'[j].value = custom_arguments[j].value
                  /\ custom_arguments'[j].enabled =
                        IF j = i THEN ~custom_arguments[j].enabled
                        ELSE custom_arguments[j].enabled

\* C29: the "Delete" button of a row removes exactly the entry at that
\* position, the other entries keeping their values, flags and order, also
\* when another entry has the same value and flag; a check box changes the
\* enabled flag of its own entry and nothing else.
Cex_C29 == [][DeleteRemovesItsEntry /\ ToggleFlipsItsEntry]_vars

DeleteRemovesFirstEqual ==
    \A i \in 1..Len(custom_arguments) :
        delete_custom_argument(i) =>
            \E k \in 1..i :
                /\ custom_arguments[k] = custom_arguments[i]
                /\ \A h \in 1..(k - 1) : custom_arguments[h] # custom_arguments[i]
                /\ custom_arguments' = Removed(custom_arguments, k)

\* What the code keeps of C29: the "Delete" button removes the first entry
\* equal to the one of its row, which is that entry when no two entries are
\* equal; a check box flips its own entry only.
Kept_C29 == [][DeleteRemovesFirstEqual /\ ToggleFlipsItsEntry]_vars

\* A list whose last entry equals its first, the middle one differing.
Repeated_C29 ==
    /\ Len(custom_arguments) = 3
    /\ custom_arguments[1] = custom_arguments[3]
    /\ custom_arguments[1] # custom_arguments[2]

\* Every callback that waits and every line the listener holds is of the
\* run started last, and the reader threads of the runs before have ended.
OneRunAtATime ==
    /\ \A i \in 1..Len(after_queue) : after_queue[i].run = Len(run_server)
    /\ \A i \in 1..Len(listener) :
          listener[i].fn = "update_output" => listener[i].run = Len(run_server)
    /\ \A r \in 1..(Len(run_server) - 1) :
          /\ run_server[r].pc = "done"
          /\ StoppedIn(listener, r) = 1
          /\ child[r].state # "alive"

\* A start request is accepted only when nothing of the runs before is left
\* to deliver: no callback waits, every reader thread has ended with its
\* pipe read empty, and the stopped notification of every run was delivered.
StartsAfterDelivery ==
    (start_server /\ run_server' # run_server) =>
        /\ after_queue = <<>>
        /\ \A r \in 1..Len(run_server) :
              /\ run_server[r].pc = "done"
              /\ child[r].stdout = <<>>
              /\ StoppedIn(listener, r) = 1

\* C28: the output of different runs never mixes: every line and the stopped
\* notification of a run are delivered before a start request for the next
\* run is accepted.
Thm_C28 == []OneRunAtATime /\ [][StartsAfterDelivery]_vars

\* A second run whose child is alive after a first run whose line and
\* stopped notification were delivered.
Wit_C28 ==
    /\ Len(run_server) = 2
    /\ child[1].writes > 0
    /\ StoppedIn(listener, 1) = 1
    /\ child[2].state = "alive"

\* A stop request made while the server runs reaches the child of the run
\* started last, unless that child is gone or terminate() itself raised.
StopReachesCurrentChild ==
    \A raised \in BOOLEAN :
        (is_running /\ stop_server(raised)) =>
            \/ ChildGone(Len(run_server))
            \/ raised
            \/ /\ server_process = Len(run_server)
               /\ child'[Len(run_server)].terminate

\* C27: a stop request made while is_running is true sends the terminate
\* request to the child of the current run unless that child has exited; it
\* is never directed at the handle of an earlier run, also not right after
\* the start request, before the reader thread has created the child.
Cex_C27 == [][StopReachesCurrentChild]_vars

StopReachesSpawnedChild ==
    \A raised \in BOOLEAN :
        (is_running /\ stop_server(raised) /\ server_process # 0
            /\ child[server_process].state = "alive") =>
            \/ raised
            \/ /\ server_process = Len(run_server)
               /\ child'[Len(run_server)].terminate

\* What the code keeps of C27: once the reader thread has created the child,
\* a stop request reaches that child.
Kept_C27 == [][StopReachesSpawnedChild]_vars

\* A start request made while no server runs is accepted, whatever ran
\* before: it sets is_running and starts a reader thread for a new child.
StartAccepted ==
    (start_server /\ ~is_running) =>
        /\ is_running'
        /\ Len(run_server') = Len(run_server) + 1
        /\ run_server'[Len(run_server')].pc = "Popen"
        /\ child'[Len(child')].state = "unborn"
        /\ \A r \in 1..Len(run_server) : run_server'[r] = run_server[r]

\* The reader thread of the current run has not yet called Popen.
Unborn ==
    /\ Len(run_server) > 0
    /\ child[Len(run_server)].state = "unborn"

\* The reader thread of a run that is over has ended and left nothing to
\* deliver.
RunOver ==
    (~is_running /\ Len(run_server) > 0) =>
        /\ run_server[Len(run_server)].pc = "done"
        /\ ChildGone(Len(run_server))
        /\ after_queue = <<>>

\* C26: under fair scheduling of the reader thread and the UI loop, with a
\* child that fails to start or exits in the end, every accepted start
\* request is followed by the stopped notification and is_running false, the
\* reader thread ended; a start request is then accepted again and its
\* reader thread creates a new child, nothing being reset in between.
Thm_C26 ==
    /\ is_running ~> (~is_running /\ StoppedIn(listener, Len(run_server)) = 1)
    /\ Unborn ~> ~Unborn
    /\ [][StartAccepted]_vars
    /\ []RunOver

\* The second run with its child alive, after a first run whose child had
\* exited and whose stopped notification was delivered.
Wit_C26 ==
    /\ Len(run_server) = 2
    /\ child[1].state = "exited"
    /\ StoppedIn(listener, 1) = 1
    /\ is_running
    /\ child[2].state = "alive"
    /\ child[2].argv = run_server[2].cmd

\* The settings and the list of custom arguments as they are.
Settings ==
    [StringVar |-> StringVar, IntVar |-> IntVar, BooleanVar |-> BooleanVar,
     custom_arguments_list |-> custom_arguments]

\* What load_config makes of the settings when the file holds doc: all of
\* its statements run and none raises.
LoadsAs(doc, settings) ==
    /\ doc.kind = "object"
    /\ first_raise(json_load(doc)) > Len(load_steps)
    /\ load_statements(json_load(doc), Len(load_steps) + 1) = settings

\* The document a save leaves is one that load_config reads back as the
\* settings that were saved.
SavedLoadsBack ==
    save_config(FALSE) => LoadsAs(document', Settings)

\* A load of the document written from the settings as they are changes no
\* setting and no custom argument, and reports no error.
LoadAfterSave ==
    (load_config /\ LoadsAs(document, Settings)) =>
        /\ UNCHANGED <<StringVar, IntVar, BooleanVar, custom_arguments>>
        /\ Messagebox' = "none"

\* C21: saving and then loading leaves every setting and the list of custom
\* arguments as they were when saved, from every state the form can be
\* brought to.
Thm_C21 == [][SavedLoadsBack /\ LoadAfterSave]_vars

\* Edited settings, with an edited list, saved and loaded again.
Wit_C21 ==
    /\ Messagebox = "none"
    /\ config_file \notin ConfigFiles
    /\ config_file = Settings
    /\ document = json_dump(config_of(config_file))
    /\ custom_arguments # <<>>
    /\ \E c \in ConfigFiles :
          c.custom_arguments_list # custom_arguments

\* The keys of an object hold values of the type save_config writes, a
\* legacy custom_args key a text.
RightTypes(obj) ==
    /\ \A n \in StringVarNames \cap DOMAIN obj : DOMAIN obj[n] = {"string"}
    /\ \A n \in BooleanVarNames \cap DOMAIN obj : DOMAIN obj[n] = {"boolean"}
    /\ \A n \in IntVarNames \cap DOMAIN obj : DOMAIN obj[n] = {"number"}
    /\ "custom_arguments_list" \in DOMAIN obj =>
          DOMAIN obj["custom_arguments_list"] = {"array"}
    /\ "custom_args" \in DOMAIN obj => DOMAIN obj["custom_args"] = {"string"}

\* The same, the sliders' values on their grid and no legacy key.
WellTyped(obj) ==
    /\ RightTypes(obj)
    /\ \A n \in IntVarNames \cap DOMAIN obj :
          obj[n].number % resolution[n] = 0
    /\ "custom_args" \notin DOMAIN obj

\* The entries of a JSON array of custom arguments.
EntriesOf(j) ==
    [i \in 1..Len(j.array) |->
        [value |-> j.array[i].object.value.string,
         enabled |-> j.array[i].object.enabled.boolean]]

\* The settings are those of the object where it has the key and the given
\* defaults where it has not.
FilledFrom(obj, strings, ints, booleans) ==
    /\ \A n \in StringVarNames :
          StringVar'[n] = IF n \in DOMAIN obj THEN obj[n].string ELSE strings[n]
    /\ \A n \in IntVarNames :
          IntVar'[n] = IF n \in DOMAIN obj THEN obj[n].number ELSE ints[n]
    /\ \A n \in BooleanVarNames :
          BooleanVar'[n] =
              IF n \in DOMAIN obj THEN obj[n].boolean ELSE booleans[n]
    /\ custom_arguments' =
          IF "custom_arguments_list" \in DOMAIN obj
          THEN EntriesOf(obj["custom_arguments_list"])
          ELSE <<>>

LoadFillsInFresh ==
    (load_config /\ document.kind = "object" /\ WellTyped(document.object)) =>
        /\ Messagebox' = "none"
        /\ FilledFrom(document.object, DefaultStringVar, DefaultIntVar,
                      DefaultBooleanVar)

\* C22: loading a document with any keys removed, or with keys the program
\* does not know, raises no error; every key present gives its setting the
\* document's value and every missing key the default of a fresh start
\* (host 127.0.0.1, port 8080, context 4096, GPU layers 99, flash attention
\* auto, other texts empty, booleans false, the list empty).
Cex_C22 == [][LoadFillsInFresh]_vars

LoadFillsIn ==
    (load_config /\ document.kind = "object" /\ WellTyped(document.object)) =>
        /\ Messagebox' = "none"
        /\ FilledFrom(document.object,
                      [DefaultStringVar EXCEPT !["flash_attn"] = <<"0">>],
                      DefaultIntVar, DefaultBooleanVar)

\* What the code keeps of C22: the same, but a missing flash_attn key gives
\* the text of False.
Kept_C22 == [][LoadFillsIn]_vars

\* A document without the flash_attn key has been loaded.
Missing_C22 ==
    /\ document.kind = "object"
    /\ "flash_attn" \notin DOMAIN document.object
    /\ "model_path" \in DOMAIN document.object
    /\ config_file = Settings
    /\ StringVar["flash_attn"] = <<"0">>

\* A text without the white space at its two ends.
Inner(s) ==
    LET inked == {i \in 1..Len(s) : s[i] \notin Whitespace}
    IN  IF inked = {} THEN <<>>
        ELSE SubSeq(s, CHOOSE i \in inked : \A j \in inked : i <= j,
                       CHOOSE i \in inked : \A j \in inked : j <= i)

\* The list a document asks for: its list where that has entries, else its
\* legacy text, trimmed, as one enabled entry where that is not blank, else
\* no entry.
MigratedFrom(obj) ==
    LET list == IF "custom_arguments_list" \in DOMAIN obj
                THEN EntriesOf(obj["custom_arguments_list"])
                ELSE <<>>
        text == IF "custom_args" \in DOMAIN obj
                THEN Inner(obj["custom_args"].string)
                ELSE <<>>
    IN  IF list # <<>> THEN list
        ELSE IF text # <<>> THEN << [value |-> text, enabled |-> TRUE] >>
        ELSE <<>>

LoadMigrates ==
    (load_config /\ document.kind = "object" /\ RightTypes(document.object)) =>
        custom_arguments' = MigratedFrom(document.object)

\* C23: on load, a document whose list of custom arguments is absent or
\* empty and whose legacy custom_args text is not blank gives exactly one
\* entry, the trimmed text, enabled; a document with a list that has entries
\* gives that list and its legacy text is ignored; with neither, the list is
\* empty.
Thm_C23 == [][LoadMigrates]_vars

\* The legacy text " -x 1 " of a document without a list has been loaded.
Wit_C23 ==
    /\ document.kind = "object"
    /\ "custom_arguments_list" \notin DOMAIN document.object
    /\ "custom_args" \in DOMAIN document.object
    /\ DOMAIN document.object["custom_args"] = {"string"}
    /\ document.object["custom_args"].string = <<" ", "-", "x", " ", "1", " ">>
    /\ custom_arguments = << [value |-> <<"-", "x", " ", "1">>, enabled |-> TRUE] >>
    /\ config_file = Settings

LoadFailsWhole ==
    (load_config /\ Messagebox' = "load_error") =>
        UNCHANGED <<StringVar, IntVar, BooleanVar, custom_arguments>>

\* C24: whenever load_config reports a failure, the file unreadable, no valid
\* JSON, or an error raised while the document is applied, every setting and
\* the list of custom arguments are what they were before the load.
Cex_C24 == [][LoadFailsWhole]_vars

LoadFailsBeforeApplying ==
    (load_config /\ document.kind # "object") =>
        /\ Messagebox' = IF document.kind = "absent" THEN "none" ELSE "load_error"
        /\ UNCHANGED <<StringVar, IntVar, BooleanVar, custom_arguments>>

\* What the code keeps of C24: a file that cannot be read, is no JSON or is
\* no JSON object is reported and changes nothing, and a missing file is
\* passed over in silence.
Kept_C24 == [][LoadFailsBeforeApplying]_vars

\* A load was reported as failed after it had replaced the list.
Partial_C24 ==
    /\ Messagebox = "load_error"
    /\ document.kind = "object"
    /\ "custom_args" \in DOMAIN document.object
    /\ custom_arguments = <<>>
    /\ config_file.custom_arguments_list # <<>>
    /\ StringVar = config_file.StringVar

\* The numerals of the multiples of 1024 in the range of the slider.
GridNumerals == {str(1024 * k) : k \in 0..128}

\* The value generate_command emits after -c is a multiple of 1024.
ContextOnGrid ==
    generate_command.kind = "list" =>
        /\ generate_command.argv[4] = <<"-", "c">>
        /\ generate_command.argv[5] \in GridNumerals

\* A slider move leaves a multiple of the resolution to which no other
\* multiple is nearer than to the raw value.
SnapsToNearest ==
    \A n \in IntVarNames : \A raw \in SliderInputs(n) :
        update_slider_label(n, raw) =>
            /\ IntVar'[n] % resolution[n] = 0
            /\ 2 * (IntVar'[n] - raw) <= resolution[n]
            /\ 2 * (raw - IntVar'[n]) <= resolution[n]

\* Snapping values that are snapped changes nothing.
SnappedStaysPut ==
    (\A n \in IntVarNames : IntVar[n] % resolution[n] = 0) =>
        update_all_sliders(IntVar) = IntVar

\* C25: a slider move replaces the raw value by a nearest multiple of the
\* slider's resolution, snapping a snapped value changes nothing, and so
\* after any sequence of slider moves and loads the value emitted after -c is
\* a multiple of 1024.
Cex_C25 == []ContextOnGrid /\ []SnappedStaysPut /\ [][SnapsToNearest]_vars

LoadedOnGrid ==
    (load_config /\ document.kind = "object" /\ Messagebox' = "none") =>
        \A n \in IntVarNames : IntVar'[n] % resolution[n] = 0

\* What the code keeps of C25: slider moves snap to a nearest multiple,
\* snapping is idempotent, and a load that does not fail leaves the sliders'
\* settings snapped.
Kept_C25 == []SnappedStaysPut /\ [][SnapsToNearest /\ LoadedOnGrid]_vars

\* A context size off the grid, left by a load that failed.
OffGrid_C25 ==
    /\ IntVar["ctx_size"] = 5000
    /\ Messagebox = "load_error"
    /\ generate_command.kind = "list"
    /\ generate_command.argv[5] = <<"5", "0", "0", "0">>

\* The window was closed for good: destroyed, or the program has exited.
Closed == root \in {"destroyed", "exit"}

\* No child is alive that was not asked to terminate.
NoneLeftBehind ==
    \A r \in 1..Len(child) : child[r].state = "alive" => child[r].terminate

\* Closing the window while the server runs and the tray is there only
\* hides the window: the supervision is as before.
ClosingHides ==
    (on_closing /\ is_running /\ TRAY_AVAILABLE) =>
        /\ root' = "withdrawn"
        /\ UNCHANGED supervisor

\* C30: when the main window is closed and the program exits instead of
\* hiding to the tray, no child stays alive without having been asked to
\* terminate, in every interleaving of the close with the reader thread,
\* a close right after an accepted start included; when the server runs and
\* the tray is available the window is only hidden and the child keeps
\* running with is_running unchanged.
Cex_C30 == [](Closed => NoneLeftBehind) /\ [][ClosingHides]_vars

\* Every reader thread started has passed its Popen.
AllSpawned ==
    \A r \in 1..Len(child) : child[r].state # "unborn"

ClosingAsksSpawned ==
    (on_closing /\ root' = "destroyed" /\ AllSpawned) =>
        /\ NoneLeftBehind'
        /\ UNCHANGED <<is_running, server_process, run_server, after_queue>>

\* What the code keeps of C30: a close that ends the program after every
\* reader thread has created its child asks the child alive to terminate,
\* with no server running no child is alive, and the tray case only hides.
Kept_C30 ==
    /\ [](~is_running => \A r \in 1..Len(child) : child[r].state # "alive")
    /\ [][ClosingAsksSpawned /\ ClosingHides]_vars

\* The program has exited and a child it never asked to terminate is alive.
Orphan_C30 ==
    /\ root = "exit"
    /\ ~TRAY_AVAILABLE
    /\ \E r \in 1..Len(child) : child[r].state = "alive" /\ ~child[r].terminate

\* The window hidden in the tray, the child alive and the server running.
Hidden_C30 ==
    /\ root = "withdrawn"
    /\ is_running
    /\ child[Len(child)].state = "alive"
    /\ ~child[Len(child)].terminate

====
